---- MODULE Spec2Model ----
(***************************************************************************)
(* PyPomes-S3: a facade (s3_pomes) over per-engine adapters (aws_pomes,    *)
(* minio_pomes) for S3-compatible object stores, with a process-wide       *)
(* configuration (s3_common).                                              *)
(*                                                                         *)
(* Python values are modelled as follows:                                  *)
(*   - None is the string "None"; names (engines, buckets, parameters) are *)
(*     strings, "" being the empty string;                                 *)
(*   - paths, prefixes, identifiers and object keys are sequences of       *)
(*     one-character strings, so that path joining, prefix matching and    *)
(*     the test for a trailing '/' are computed and not assumed;           *)
(*   - bytes are sequences of numbers in 0..255, text is a sequence of     *)
(*     code points;                                                        *)
(*   - a result carries its type: [t |-> "none"], [t |-> "bool", v |-> b], *)
(*     [t |-> "int", v |-> n], [t |-> "bytes", v |-> s], ...               *)
(***************************************************************************)
EXTENDS Integers, Sequences, FiniteSets, TLC

VARIABLES
    S3_ENGINES,       \* s3_common._S3_ENGINES: the list of configured engines
    S3_ACCESS_DATA,   \* s3_common._S3_ACCESS_DATA: engine -> parameter dict
    store,            \* the AWS service: bucket -> (object key -> object)
    errors,           \* the caller's error list, as the last call left it
    last,             \* the last call: its arguments, what it did, its outcome
    written,          \* history: <<bucket, key>> -> the data and mimetype that
                      \* s3_data_store wrote there, while the object is as written
    threads           \* thread -> where it is in s3_setup or in a facade call
                      \* running concurrently with others, and its locals

vars == <<S3_ENGINES, S3_ACCESS_DATA, store, errors, last, written, threads>>

----------------------------------------------------------------------------
(* Bounds of the model *)

\* the most objects the store holds, over all its buckets
MaxObjects == 3
\* max_count arguments range over 0..MaxCount
MaxCount == 2

----------------------------------------------------------------------------
(* Python values *)

NONE == "None"

\* Python's truth test on a name: None and '' are false
Truthy(x) == x # NONE /\ x # ""

\* None for a value that is otherwise a sequence of characters
NoneS == <<"None">>

\* Python's truth test on a character string: None and '' are false
TruthyS(s) == s # NoneS /\ s # <<>>

RNone == [t |-> "none"]
RBool(b) == [t |-> "bool", v |-> b]
RInt(n) == [t |-> "int", v |-> n]
RBytes(s) == [t |-> "bytes", v |-> s]
RList(l) == [t |-> "list", v |-> l]
RDict(d) == [t |-> "dict", v |-> d]
RClient(c) == [t |-> "client", v |-> c]

\* x or y, on results: a client handle or None
IsNoneR(r) == r.t = "none"

----------------------------------------------------------------------------
(* Character strings: order, prefix test, '/'-splitting *)

\* the code point of each character the model uses
Ord(c) ==
    CASE c = "." -> 46
      [] c = "/" -> 47
      [] c = "a" -> 97
      [] c = "b" -> 98
      [] c = "c" -> 99
      [] c = "d" -> 100
      [] c = "o" -> 111
      [] c = "s" -> 115
      [] c = "t" -> 116
      [] c = "x" -> 120
      [] OTHER -> 0

\* s < t in the order of the code points (the order of an S3 listing)
RECURSIVE StrLess(_, _)
StrLess(s, t) ==
    IF t = <<>> THEN FALSE
    ELSE IF s = <<>> THEN TRUE
    ELSE IF Ord(Head(s)) # Ord(Head(t)) THEN Ord(Head(s)) < Ord(Head(t))
    ELSE StrLess(Tail(s), Tail(t))

\* str.startswith
StartsWith(s, p) == Len(p) <= Len(s) /\ SubSeq(s, 1, Len(p)) = p

\* str.endswith("/")
EndsWithSlash(s) == s # <<>> /\ s[Len(s)] = "/"

\* s.split("/"), with cur the segment being read
RECURSIVE SplitSlash(_, _)
SplitSlash(s, cur) ==
    IF s = <<>> THEN <<cur>>
    ELSE IF Head(s) = "/" THEN <<cur>> \o SplitSlash(Tail(s), <<>>)
    ELSE SplitSlash(Tail(s), Append(cur, Head(s)))

\* "/".join(parts)
RECURSIVE JoinSlash(_)
JoinSlash(parts) ==
    IF parts = <<>> THEN <<>>
    ELSE IF Len(parts) = 1 THEN parts[1]
    ELSE parts[1] \o <<"/">> \o JoinSlash(Tail(parts))

----------------------------------------------------------------------------
(* pathlib.Path, as the adapters use it: Path(prefix) / identifier,        *)
(* then .as_posix()                                                        *)

\* Path(s): a root flag and the non-empty, non-'.' segments
Path(s) ==
    [root |-> (s # <<>> /\ Head(s) = "/"),
     parts |-> SelectSeq(SplitSlash(s, <<>>), LAMBDA p : p # <<>> /\ p # <<".">>)]

\* Path(p) / s: an absolute s replaces p
PathJoin(p, s) ==
    IF s # <<>> /\ Head(s) = "/" THEN Path(s)
    ELSE [root |-> p.root, parts |-> p.parts \o Path(s).parts]

\* Path.as_posix(): no trailing '/', '.' for the empty path
as_posix(p) ==
    IF p.parts = <<>> THEN (IF p.root THEN <<"/">> ELSE <<".">>)
    ELSE (IF p.root THEN <<"/">> ELSE <<>>) \o JoinSlash(p.parts)

\* obj_key: the key of the object prefix/identifier
obj_key_of(prefix, identifier) == as_posix(PathJoin(Path(prefix), identifier))

----------------------------------------------------------------------------
(* Python dicts, as functions with a finite domain *)

EmptyDict == [k \in {} |-> NONE]

\* d.get(k): None when the key is absent
DictGet(d, k) == IF k \in DOMAIN d THEN d[k] ELSE NONE

\* d[k] = v
DictSet(d, k, v) == [x \in (DOMAIN d) \cup {k} |-> IF x = k THEN v ELSE d[x]]

\* the members of a list
Members(l) == {l[i] : i \in 1..Len(l)}

----------------------------------------------------------------------------
(* The environment read when s3_common is loaded.  A comma-separated value *)
(* is a sequence of tokens, "," being the separator.                       *)

\* value.split(","), with cur the entry being read ('' when empty)
RECURSIVE SplitComma(_, _)
SplitComma(toks, cur) ==
    IF toks = <<>> THEN <<cur>>
    ELSE IF Head(toks) = "," THEN <<cur>> \o SplitComma(Tail(toks), "")
    ELSE SplitComma(Tail(toks), Head(toks))

\* the environments the model starts from: the single-engine variable
\* ({APP_PREFIX}_S3_ENGINE) and the multi-engine one ({APP_PREFIX}_S3_ENGINES)
Environments ==
    { [S3_ENGINE |-> NONE,  S3_ENGINES |-> <<>>],
      [S3_ENGINE |-> "aws", S3_ENGINES |-> <<"minio">>],
      [S3_ENGINE |-> NONE,  S3_ENGINES |-> <<"minio", ",", "aws">>] }

\* env_get_str of the variable {APP_PREFIX}_{tag}_{name}
env_get_str(tag, name) ==
    CASE name = "ACCESS_KEY"    -> IF tag = "S3" THEN "env-access"
                                   ELSE IF tag = "AWS" THEN "aws-access"
                                   ELSE "minio-access"
      [] name = "SECRET_KEY"    -> "env-secret"
      [] name = "BUCKET_NAME"   -> IF tag = "MINIO" THEN "bk2" ELSE "bk1"
      [] name = "TEMP_FOLDER"   -> "/tmp"
      [] name = "REGION_NAME"   -> "env-region"
      [] name = "ENDPOINT_URL"  -> "env-url"
      [] name = "SECURE_ACCESS" -> "True"
      [] OTHER -> NONE

\* str_get_positional(engine, ["aws", "minio"], ["AWS", "MINIO"])
str_get_positional(engine) ==
    CASE engine = "aws" -> "AWS"
      [] engine = "minio" -> "MINIO"
      [] OTHER -> NONE

\* the list with a seeded fault: the multi-engine variable comes first
env_engines_multi(env) ==
    IF env.S3_ENGINES # <<>> THEN SplitComma(env.S3_ENGINES, "")
    ELSE IF Truthy(env.S3_ENGINE) THEN <<env.S3_ENGINE>>
    ELSE <<>>

\* the list of engines the environment names
env_engines(env) ==
    IF Truthy(env.S3_ENGINE) THEN <<env.S3_ENGINE>>
    ELSE IF env.S3_ENGINES # <<>> THEN SplitComma(env.S3_ENGINES, "")
    ELSE <<>>

\* _s3_data of one engine, read from the variables tagged tag
env_s3_data(engine, tag) ==
    LET base == [k \in {"access-key", "secret-key", "bucket-name", "temp-folder"} |->
                    CASE k = "access-key"  -> env_get_str(tag, "ACCESS_KEY")
                      [] k = "secret-key"  -> env_get_str(tag, "SECRET_KEY")
                      [] k = "bucket-name" -> env_get_str(tag, "BUCKET_NAME")
                      [] OTHER             -> env_get_str(tag, "TEMP_FOLDER")]
    IN  IF engine = "aws"
        THEN DictSet(base, "client", env_get_str(tag, "REGION_NAME"))
        ELSE IF engine = "minio"
        THEN DictSet(DictSet(base, "endpoint-url", env_get_str(tag, "ENDPOINT_URL")),
                     "secure-access", env_get_str(tag, "SECURE_ACCESS"))
        ELSE base

\* the loop over _S3_ENGINES: the first engine of a single-engine setup reads
\* the 'S3' variables, every other one those of its own tag
RECURSIVE env_access_data(_, _, _)
env_access_data(engines, default_setup, data) ==
    IF engines = <<>> THEN data
    ELSE LET engine == Head(engines)
             tag == IF default_setup THEN "S3" ELSE str_get_positional(engine)
         IN  env_access_data(Tail(engines), FALSE,
                             DictSet(data, engine, env_s3_data(engine, tag)))

----------------------------------------------------------------------------
(* s3_common *)

\* an entry of an error list: the message, kept by its format and its fields
AssertMsg(engine) ==
    [fmt |-> "S3 engine '{engine}' unknown or not configured", engine |-> engine]

\* an entry the caller's list holds before a call
PriorMsg == [fmt |-> "prior error"]

\* the error lists a caller passes
ErrorLists == { <<PriorMsg>> }

\* _assert_engine with a seeded fault: no engine given resolves to the last
\* configured engine instead of the first
_assert_engine_last(errs, engine) ==
    IF ~Truthy(engine) /\ S3_ENGINES # <<>>
    THEN [result |-> S3_ENGINES[Len(S3_ENGINES)], errors |-> errs]
    ELSE IF engine \in Members(S3_ENGINES)
    THEN [result |-> engine, errors |-> errs]
    ELSE [result |-> NONE, errors |-> Append(errs, AssertMsg(engine))]

\* _assert_engine(errors, engine): [result, errors]
_assert_engine(errs, engine) ==
    IF ~Truthy(engine) /\ S3_ENGINES # <<>>
    THEN [result |-> S3_ENGINES[1], errors |-> errs]
    ELSE IF engine \in Members(S3_ENGINES)
    THEN [result |-> engine, errors |-> errs]
    ELSE [result |-> NONE, errors |-> Append(errs, AssertMsg(engine))]

\* _get_param(engine, param): _S3_ACCESS_DATA[engine].get(param);
\* a KeyError when the engine has no access data
_get_param(engine, param) ==
    IF engine \in DOMAIN S3_ACCESS_DATA
    THEN [raised |-> NONE, value |-> DictGet(S3_ACCESS_DATA[engine], param)]
    ELSE [raised |-> "KeyError", value |-> NONE]

\* str_sanitize(text), of pypomes_core
str_sanitize(text) == [sanitized |-> text]

\* the message _except_msg formats
ExceptMsg(engine, endpoint, exception) ==
    [fmt |-> "Error accessing '{engine}' at '{endpoint}': {text}",
     engine |-> engine, endpoint |-> endpoint, text |-> str_sanitize(exception.text)]

\* _except_msg with a seeded fault: the message is formatted and logged but
\* not appended
_except_msg_silent(errs, exception, engine) ==
    IF engine \notin DOMAIN S3_ACCESS_DATA
    THEN [raised |-> "KeyError", errors |-> errs]
    ELSE [raised |-> NONE, errors |-> errs]

\* _except_msg(errors, exception, engine): [raised, errors]
_except_msg(errs, exception, engine) ==
    IF engine \notin DOMAIN S3_ACCESS_DATA
    THEN [raised |-> "KeyError", errors |-> errs]
    ELSE LET endpoint == IF engine = "aws"
                         THEN DictGet(S3_ACCESS_DATA[engine], "region-name")
                         ELSE DictGet(S3_ACCESS_DATA[engine], "endpoint-url")
         IN  [raised |-> NONE,
              errors |-> Append(errs, ExceptMsg(engine, endpoint, exception))]

----------------------------------------------------------------------------
(* The AWS service behind the client (boto3), an external collaborator.    *)
(* The store maps each existing bucket to its objects; an object has a     *)
(* body, a content type and metadata.  Every interaction with the service  *)
(* is logged in cx.vcalls; cx.store is the store as the call has left it   *)
(* so far and cx.file the local file the call reads or writes.             *)

\* an exception of the vendor: e.code exists or not, str(e) is its text
Exc(kind) ==
    [kind |-> kind,
     hasCode |-> kind \notin {"Timeout", "NoFile", "TypeError"},
     code |-> kind,
     text |-> CASE kind = "NoSuchKey" -> "The specified key does not exist"
                [] kind = "NoSuchBucket" -> "The specified bucket does not exist"
                [] kind = "AccessDenied" -> "Access 'Denied'"
                [] kind = "InvalidRange" -> "The requested range is not satisfiable"
                [] kind = "Timeout" -> "Connect timeout on endpoint URL"
                [] kind = "NoFile" -> "No such file or directory"
                [] kind = "TypeError" -> "'NoneType' object is not iterable"
                [] OTHER -> ""]

\* the failures the service can be made to answer with, besides those the
\* store itself decides: "NoSuchKey" is an object another client of the
\* service removed just before the call
FaultKinds == {"AccessDenied", "Timeout", "NoSuchKey"}

NoFault == [at |-> 0, kind |-> "ok", omit |-> FALSE]

\* the fault plans of a call making at most n interactions: at most one fault,
\* at interaction number at; omit says whether a listing with no key leaves
\* 'Contents' out of its reply
Faults(n) ==
    {[at |-> 0, kind |-> "ok", omit |-> o] : o \in BOOLEAN}
    \cup {[at |-> k, kind |-> x, omit |-> FALSE] : k \in 1..n, x \in FaultKinds}

\* the calls that address one object
KeyedCalls == {"get_object", "download_file", "get_object_attributes",
               "head_object", "remove_object"}

\* the store without object key of bucket
RemoveKey(st, bucket, key) ==
    IF bucket \in DOMAIN st /\ key \in DOMAIN st[bucket]
    THEN [st EXCEPT ![bucket] = [k \in (DOMAIN st[bucket]) \ {key} |-> st[bucket][k]]]
    ELSE st

\* the store with object key of bucket set to obj
PutKey(st, bucket, key, obj) ==
    [st EXCEPT ![bucket] = [k \in (DOMAIN st[bucket]) \cup {key} |->
                               IF k = key THEN obj ELSE st[bucket][k]]]

\* the number of objects of the store
RECURSIVE CountObjects(_, _)
CountObjects(st, bs) ==
    IF bs = {} THEN 0
    ELSE LET b == CHOOSE x \in bs : TRUE
         IN  Cardinality(DOMAIN st[b]) + CountObjects(st, bs \ {b})

NumObjects(st) == CountObjects(st, DOMAIN st)

\* the keys of a set in the order of a listing
RECURSIVE SortKeys(_)
SortKeys(ks) ==
    IF ks = {} THEN <<>>
    ELSE LET m == CHOOSE k \in ks : \A o \in ks \ {k} : StrLess(k, o)
         IN  <<m>> \o SortKeys(ks \ {m})

\* one interaction with the service: the fault planned for it, or else the
\* reply the store decides (reply; reply_gone is the reply once another
\* client has removed the object addressed); the interaction is logged
Vendor(cx, F, call, client, bucket, key, reply, reply_gone) ==
    LET logged(r) ==
            [ok |-> r.kind = "ok",
             exc |-> Exc(r.kind),
             value |-> r.value,
             cx |-> [store |-> r.store,
                     file |-> r.file,
                     vcalls |-> Append(cx.vcalls,
                                       [call |-> call, client |-> client,
                                        bucket |-> bucket, key |-> key,
                                        outcome |-> r.kind])]]
    IN  logged(CASE F.at # Len(cx.vcalls) + 1 -> reply
                 [] F.kind = "NoSuchKey" ->
                      IF call \in KeyedCalls THEN reply_gone ELSE reply
                 [] OTHER -> [kind |-> F.kind, value |-> RNone, store |-> cx.store,
                              file |-> cx.file])

\* a reply of the store: its kind ("ok" or the failure), value and effects
Reply(kind, value, st, file) == [kind |-> kind, value |-> value, store |-> st, file |-> file]

\* the bytes of body in the inclusive, zero-based range rng (<<>>: all bytes)
Slice(body, rng) ==
    IF rng = <<>> THEN body
    ELSE SubSeq(body, rng[1] + 1, IF rng[2] + 1 < Len(body) THEN rng[2] + 1 ELSE Len(body))

NoFileL == [exists |-> FALSE, body |-> <<>>]

\* boto3.client(...): a new client handle
client_new(cx, F) ==
    LET made == Cardinality({i \in 1..Len(cx.vcalls) : cx.vcalls[i].call = "boto3.client"})
        name == IF made = 0 THEN "new1" ELSE IF made = 1 THEN "new2" ELSE "new3"
        reply == Reply("ok", RClient(name), cx.store, cx.file)
    IN  Vendor(cx, F, "boto3.client", name, NONE, <<>>, reply, reply)

\* client.head_bucket(Bucket)
client_head_bucket(cx, F, client, bucket) ==
    LET reply == IF bucket \in DOMAIN cx.store
                 THEN Reply("ok", RNone, cx.store, cx.file)
                 ELSE Reply("NoSuchBucket", RNone, cx.store, cx.file)
    IN  Vendor(cx, F, "head_bucket", client, bucket, <<>>, reply, reply)

\* client.create_bucket(Bucket)
client_create_bucket(cx, F, client, bucket) ==
    LET reply == IF bucket \in DOMAIN cx.store
                 THEN Reply("BucketAlreadyOwnedByYou", RNone, cx.store, cx.file)
                 ELSE Reply("ok", RNone,
                            [b \in (DOMAIN cx.store) \cup {bucket} |->
                                IF b = bucket THEN EmptyDict ELSE cx.store[b]],
                            cx.file)
    IN  Vendor(cx, F, "create_bucket", client, bucket, <<>>, reply, reply)

\* client.get_object(Bucket, Key, Range): the reply's Body
client_get_object(cx, F, client, bucket, key, rng) ==
    LET decide(st) ==
            IF bucket \notin DOMAIN st
            THEN Reply("NoSuchBucket", RNone, st, cx.file)
            ELSE IF key \notin DOMAIN st[bucket]
            THEN Reply("NoSuchKey", RNone, st, cx.file)
            ELSE IF rng # <<>> /\ rng[1] >= Len(st[bucket][key].body)
            THEN Reply("InvalidRange", RNone, st, cx.file)
            ELSE Reply("ok", RBytes(Slice(st[bucket][key].body, rng)), st, cx.file)
    IN  Vendor(cx, F, "get_object", client, bucket, key,
               decide(cx.store), decide(RemoveKey(cx.store, bucket, key)))

\* the metadata the service records: an empty dict when none is given
StoredMeta(meta) == IF IsNoneR(meta) THEN RDict(EmptyDict) ELSE meta

\* client.put_object(Body, Bucket, ContentType, Key, Metadata)
client_put_object(cx, F, client, bucket, key, body, ctype, meta) ==
    LET reply == IF bucket \notin DOMAIN cx.store
                 THEN Reply("NoSuchBucket", RNone, cx.store, cx.file)
                 ELSE Reply("ok", RNone,
                            PutKey(cx.store, bucket, key,
                                   [body |-> body, ctype |-> ctype,
                                    meta |-> StoredMeta(meta)]),
                            cx.file)
    IN  Vendor(cx, F, "put_object", client, bucket, key, reply, reply)

\* client.download_file(Bucket, Filename, Key): writes the local file,
\* returns None
client_download_file(cx, F, client, bucket, key) ==
    LET decide(st) ==
            IF bucket \notin DOMAIN st
            THEN Reply("NoSuchBucket", RNone, st, cx.file)
            ELSE IF key \notin DOMAIN st[bucket]
            THEN Reply("NoSuchKey", RNone, st, cx.file)
            ELSE Reply("ok", RNone, st,
                       [exists |-> TRUE, body |-> st[bucket][key].body])
    IN  Vendor(cx, F, "download_file", client, bucket, key,
               decide(cx.store), decide(RemoveKey(cx.store, bucket, key)))

\* client.upload_file(Filename, Bucket, Key, ExtraArgs): reads the local
\* file; without a ContentType the service records its default
client_upload_file(cx, F, client, bucket, key, ctype, meta) ==
    LET reply == IF ~cx.file.exists
                 THEN Reply("NoFile", RNone, cx.store, cx.file)
                 ELSE IF bucket \notin DOMAIN cx.store
                 THEN Reply("NoSuchBucket", RNone, cx.store, cx.file)
                 ELSE Reply("ok", RNone,
                            PutKey(cx.store, bucket, key,
                                   [body |-> cx.file.body,
                                    ctype |-> IF ctype = NONE
                                              THEN "binary/octet-stream" ELSE ctype,
                                    meta |-> StoredMeta(meta)]),
                            cx.file)
    IN  Vendor(cx, F, "upload_file", client, bucket, key, reply, reply)

\* client.get_object_attributes(Bucket, Key)
client_get_object_attributes(cx, F, client, bucket, key) ==
    LET decide(st) ==
            IF bucket \notin DOMAIN st
            THEN Reply("NoSuchBucket", RNone, st, cx.file)
            ELSE IF key \notin DOMAIN st[bucket]
            THEN Reply("NoSuchKey", RNone, st, cx.file)
            ELSE Reply("ok", RDict([ObjectSize |-> Len(st[bucket][key].body)]),
                       st, cx.file)
    IN  Vendor(cx, F, "get_object_attributes", client, bucket, key,
               decide(cx.store), decide(RemoveKey(cx.store, bucket, key)))

\* client.head_object(Bucket, Key): the reply, of which 'Metadata' is read
client_head_object(cx, F, client, bucket, key) ==
    LET decide(st) ==
            IF bucket \notin DOMAIN st
            THEN Reply("NoSuchBucket", RNone, st, cx.file)
            ELSE IF key \notin DOMAIN st[bucket]
            THEN Reply("NoSuchKey", RNone, st, cx.file)
            ELSE Reply("ok",
                       RDict([Metadata |-> st[bucket][key].meta,
                              ContentType |-> st[bucket][key].ctype]),
                       st, cx.file)
    IN  Vendor(cx, F, "head_object", client, bucket, key,
               decide(cx.store), decide(RemoveKey(cx.store, bucket, key)))

\* client.list_objects_v2(Bucket, Prefix, MaxKeys): the first MaxKeys keys
\* that start with Prefix, in key order; the reply's 'Contents', which a
\* reply without keys may leave out ([t |-> "none"])
client_list_objects_v2(cx, F, client, bucket, prefix, max_keys) ==
    LET all == SortKeys({k \in DOMAIN cx.store[bucket] : StartsWith(k, prefix)})
        n == IF Len(all) < max_keys THEN Len(all) ELSE max_keys
        keys == SubSeq(all, 1, n)
        reply == IF bucket \notin DOMAIN cx.store
                 THEN Reply("NoSuchBucket", RNone, cx.store, cx.file)
                 ELSE IF keys = <<>> /\ F.omit
                 THEN Reply("ok", RNone, cx.store, cx.file)
                 ELSE Reply("ok", RList([i \in 1..Len(keys) |-> [Key |-> keys[i]]]),
                            cx.store, cx.file)
        called == Vendor(cx, F, "list_objects_v2", client, bucket, prefix, reply, reply)
        at == Len(called.cx.vcalls)
    \* the interaction is logged with its MaxKeys
    IN  [called EXCEPT !.cx.vcalls[at] =
            [call |-> @.call, client |-> @.client, bucket |-> @.bucket,
             key |-> @.key, outcome |-> @.outcome, max_keys |-> max_keys]]

\* client.remove_object(Bucket, Key)
client_remove_object(cx, F, client, bucket, key) ==
    LET decide(st) ==
            IF bucket \notin DOMAIN st
            THEN Reply("NoSuchBucket", RNone, st, cx.file)
            ELSE IF key \notin DOMAIN st[bucket]
            THEN Reply("NoSuchKey", RNone, st, cx.file)
            ELSE Reply("ok", RNone, RemoveKey(st, bucket, key), cx.file)
    IN  Vendor(cx, F, "remove_object", client, bucket, key,
               decide(cx.store), decide(RemoveKey(cx.store, bucket, key)))

----------------------------------------------------------------------------
(* aws_pomes: the AWS adapter.  Each function returns                      *)
(*   [result, errors, cx, raised]:                                         *)
(* its result, the error list passed to it as it leaves it, the service    *)
(* and the log of the interactions, and the exception it lets escape       *)
(* (None when it returns).                                                 *)

Ret(result, errs, cx) == [result |-> result, errors |-> errs, cx |-> cx, raised |-> NONE]

Raise(exception, errs, cx) ==
    [result |-> RNone, errors |-> errs, cx |-> cx, raised |-> exception]

\* the not-found test with a seeded fault: every exception is reported
NotNoSuchKey_all(e) == TRUE

\* not hasattr(e, "code") or e.code != "NoSuchKey"
NotNoSuchKey(e) == ~e.hasCode \/ e.code # "NoSuchKey"

\* except Exception as e: _except_msg(errors, e, "aws"), then return result
Except(errs, e, cx, result) ==
    LET m == _except_msg(errs, e, "aws")
    IN  IF m.raised # NONE THEN Raise(m.raised, errs, cx)
        ELSE Ret(result, m.errors, cx)

\* MIMETYPE_BINARY, of pypomes_http
MIMETYPE_BINARY == "application/octet-stream"

\* _normalize_tags(tags)
_normalize_tags(tags) == IF tags = NONE THEN RNone ELSE RDict([normalized |-> tags])

\* _get_params("aws"), as get_client unpacks it; a KeyError when the engine
\* has no access data
_get_params(engine) ==
    IF engine \in DOMAIN S3_ACCESS_DATA
    THEN [raised |-> NONE,
          value |-> [k \in {"endpoint-url", "bucket-name", "access-key",
                            "secret-key", "secure-access", "region-name"} |->
                        DictGet(S3_ACCESS_DATA[engine], k)]]
    ELSE [raised |-> "KeyError", value |-> EmptyDict]

\* the encoding with a seeded fault: one byte per code point (latin-1)
latin1(text) == text

\* bytes(data, "utf-8"): one byte below 128, two bytes below 2048
RECURSIVE utf8(_)
utf8(text) ==
    IF text = <<>> THEN <<>>
    ELSE LET c == Head(text)
         IN  (IF c < 128 THEN <<c>> ELSE <<192 + (c \div 64), 128 + (c % 64)>>)
             \o utf8(Tail(text))

\* the content of BytesIO(data), or of BytesIO(bytes(data, "utf-8"))
bin_data(data) == IF data.type = "bytes" THEN data.val ELSE utf8(data.val)

\* get_client(errors)
aws_get_client(errs, cx, F) ==
    LET params == _get_params("aws")
        made(rep) == IF rep.ok THEN Ret(rep.value, errs, rep.cx)
                     ELSE Except(errs, rep.exc, rep.cx, RNone)
    IN  IF params.raised # NONE THEN Raise(params.raised, errs, cx)
        ELSE made(client_new(cx, F))

\* client or get_client(errors)
client_or_get(errs, client, cx, F) ==
    IF client # NONE THEN Ret(RClient(client), errs, cx)
    ELSE aws_get_client(errs, cx, F)

\* startup(errors, bucket)
aws_startup(errs, bucket, cx, F) ==
    LET created(c, made) ==
            IF made.ok THEN Ret(RBool(FALSE), c.errors, made.cx)
            ELSE Except(c.errors, made.exc, made.cx, RBool(FALSE))
        headed(c, head) ==
            IF head.ok THEN Ret(RBool(TRUE), c.errors, head.cx)
            ELSE created(c, client_create_bucket(head.cx, F, c.result.v, bucket))
        with_client(c) ==
            IF c.raised # NONE THEN c
            ELSE IF IsNoneR(c.result) THEN Ret(RBool(FALSE), c.errors, c.cx)
            ELSE headed(c, client_head_bucket(c.cx, F, c.result.v, bucket))
    IN  with_client(aws_get_client(errs, cx, F))

\* data_retrieve(errors, bucket, prefix, identifier, data_range, client)
aws_data_retrieve(errs, bucket, prefix, identifier, data_range, client, cx, F) ==
    LET obj_key == obj_key_of(prefix, identifier)
        replied(c, reply) ==
            IF reply.ok THEN Ret(reply.value, c.errors, reply.cx)
            ELSE IF NotNoSuchKey(reply.exc)
            THEN Except(c.errors, reply.exc, reply.cx, RNone)
            ELSE Ret(RNone, c.errors, reply.cx)
        with_client(c) ==
            IF c.raised # NONE THEN c
            ELSE IF IsNoneR(c.result) THEN Ret(RNone, c.errors, c.cx)
            ELSE replied(c, client_get_object(c.cx, F, c.result.v, bucket, obj_key,
                                              data_range))
    IN  with_client(client_or_get(errs, client, cx, F))

\* data_store(errors, bucket, prefix, identifier, data, mimetype, tags, client):
\* result starts as True and no path sets it to False
aws_data_store(errs, bucket, prefix, identifier, data, mimetype, tags, client, cx, F) ==
    LET obj_key == obj_key_of(prefix, identifier)
        replied(c, reply) ==
            IF reply.ok THEN Ret(RBool(TRUE), c.errors, reply.cx)
            ELSE Except(c.errors, reply.exc, reply.cx, RBool(TRUE))
        with_client(c) ==
            IF c.raised # NONE THEN c
            ELSE IF IsNoneR(c.result) THEN Ret(RBool(TRUE), c.errors, c.cx)
            ELSE replied(c, client_put_object(c.cx, F, c.result.v, bucket, obj_key,
                                              bin_data(data), mimetype,
                                              _normalize_tags(tags)))
    IN  with_client(client_or_get(errs, client, cx, F))

\* file_retrieve(errors, prefix, identifier, filepath, bucket, client)
aws_file_retrieve(errs, prefix, identifier, bucket, client, cx, F) ==
    LET obj_key == obj_key_of(prefix, identifier)
        replied(c, reply) ==
            IF reply.ok THEN Ret(reply.value, c.errors, reply.cx)
            ELSE IF NotNoSuchKey(reply.exc)
            THEN Except(c.errors, reply.exc, reply.cx, RNone)
            ELSE Ret(RNone, c.errors, reply.cx)
        with_client(c) ==
            IF c.raised # NONE THEN c
            ELSE IF IsNoneR(c.result) THEN Ret(RNone, c.errors, c.cx)
            ELSE replied(c, client_download_file(c.cx, F, c.result.v, bucket, obj_key))
    IN  with_client(client_or_get(errs, client, cx, F))

\* file_store(errors, bucket, prefix, identifier, filepath, mimetype, tags, client)
aws_file_store(errs, bucket, prefix, identifier, mimetype, tags, client, cx, F) ==
    LET obj_key == obj_key_of(prefix, identifier)
        ctype == IF Truthy(mimetype) THEN mimetype ELSE NONE
        meta == IF tags # NONE THEN _normalize_tags(tags) ELSE RNone
        replied(c, reply) ==
            IF reply.ok THEN Ret(RBool(TRUE), c.errors, reply.cx)
            ELSE Except(c.errors, reply.exc, reply.cx, RBool(FALSE))
        with_client(c) ==
            IF c.raised # NONE THEN c
            ELSE IF IsNoneR(c.result) THEN Ret(RBool(FALSE), c.errors, c.cx)
            ELSE replied(c, client_upload_file(c.cx, F, c.result.v, bucket, obj_key,
                                               ctype, meta))
    IN  with_client(client_or_get(errs, client, cx, F))

\* item_get_info(errors, prefix, identifier, bucket, client)
aws_item_get_info(errs, prefix, identifier, bucket, client, cx, F) ==
    LET obj_key == obj_key_of(prefix, identifier)
        replied(c, reply) ==
            IF reply.ok THEN Ret(reply.value, c.errors, reply.cx)
            ELSE IF NotNoSuchKey(reply.exc)
            THEN Except(c.errors, reply.exc, reply.cx, RNone)
            ELSE Ret(RNone, c.errors, reply.cx)
        with_client(c) ==
            IF c.raised # NONE THEN c
            ELSE IF IsNoneR(c.result) THEN Ret(RNone, c.errors, c.cx)
            ELSE replied(c, client_get_object_attributes(c.cx, F, c.result.v, bucket,
                                                         obj_key))
    IN  with_client(client_or_get(errs, client, cx, F))

\* item_get_tags(errors, bucket, prefix, identifier, client)
aws_item_get_tags(errs, bucket, prefix, identifier, client, cx, F) ==
    LET obj_key == obj_key_of(prefix, identifier)
        dflt == IF Truthy(bucket) THEN [raised |-> NONE, value |-> bucket]
                ELSE _get_param("aws", "bucket-name")
        replied(c, reply) ==
            IF reply.ok THEN Ret(reply.value.v.Metadata, c.errors, reply.cx)
            ELSE IF NotNoSuchKey(reply.exc)
            THEN Except(c.errors, reply.exc, reply.cx, RNone)
            ELSE Ret(RNone, c.errors, reply.cx)
        with_client(c) ==
            IF c.raised # NONE THEN c
            ELSE IF dflt.raised # NONE THEN Raise(dflt.raised, c.errors, c.cx)
            ELSE IF IsNoneR(c.result) THEN Ret(RNone, c.errors, c.cx)
            ELSE replied(c, client_head_object(c.cx, F, c.result.v, dflt.value, obj_key))
    IN  with_client(client_or_get(errs, client, cx, F))

\* _item_delete with a seeded fault: an item not found counts as deleted
_item_delete_found(errs, bucket, obj_key, client, cx, F) ==
    LET replied(reply) ==
            IF reply.ok THEN Ret(RInt(1), errs, reply.cx)
            ELSE IF NotNoSuchKey(reply.exc)
            THEN Except(errs, reply.exc, reply.cx, RInt(0))
            ELSE Ret(RInt(1), errs, reply.cx)
    IN  replied(client_remove_object(cx, F, client, bucket, obj_key))

\* _item_delete(errors, bucket, obj_key, client)
_item_delete(errs, bucket, obj_key, client, cx, F) ==
    LET replied(reply) ==
            IF reply.ok THEN Ret(RInt(1), errs, reply.cx)
            ELSE IF NotNoSuchKey(reply.exc)
            THEN Except(errs, reply.exc, reply.cx, RInt(0))
            ELSE Ret(RInt(0), errs, reply.cx)
    IN  replied(client_remove_object(cx, F, client, bucket, obj_key))

\* items_list(errors, bucket, prefix, max_count, client)
aws_items_list(errs, bucket, prefix, max_count, client, cx, F) ==
    LET replied(c, reply) ==
            IF ~reply.ok THEN Except(c.errors, reply.exc, reply.cx, RNone)
            ELSE IF IsNoneR(reply.value)
            \* iterating over reply.get("Contents"), which is None
            THEN Except(c.errors, Exc("TypeError"), reply.cx, RNone)
            ELSE Ret(RList(SelectSeq(reply.value.v,
                                     LAMBDA content : ~EndsWithSlash(content.Key))),
                     c.errors, reply.cx)
        with_client(c) ==
            IF c.raised # NONE THEN c
            ELSE IF IsNoneR(c.result) THEN Ret(RNone, c.errors, c.cx)
            ELSE replied(c, client_list_objects_v2(c.cx, F, c.result.v, bucket,
                                                   as_posix(Path(prefix)), max_count))
    IN  with_client(client_or_get(errs, client, cx, F))

\* the loop with a seeded fault: it goes on after a deletion has failed
RECURSIVE remove_loop_on(_, _, _, _, _, _, _, _)
remove_loop_on(items_data, op_errors, result, limit, bucket, client, cx, F) ==
    LET deleted(d) ==
            IF d.raised # NONE THEN d
            ELSE remove_loop_on(Tail(items_data), d.errors, result + d.result.v,
                                limit, bucket, client, d.cx, F)
    IN  IF items_data = <<>> \/ result >= limit
        THEN Ret(RInt(result), op_errors, cx)
        ELSE deleted(_item_delete(op_errors, bucket, Head(items_data).Key, client, cx, F))

\* the loop of items_remove and item_remove over items_data:
\*   for item_data in items_data:
\*       if op_errors or result >= limit: break
\*       result += _item_delete(op_errors, bucket, item_data.get("Key"), client)
\* [result, errors (op_errors), cx, raised]
RECURSIVE remove_loop(_, _, _, _, _, _, _, _)
remove_loop(items_data, op_errors, result, limit, bucket, client, cx, F) ==
    LET deleted(d) ==
            IF d.raised # NONE THEN d
            ELSE remove_loop(Tail(items_data), d.errors, result + d.result.v,
                             limit, bucket, client, d.cx, F)
    IN  IF items_data = <<>> \/ op_errors # <<>> \/ result >= limit
        THEN Ret(RInt(result), op_errors, cx)
        ELSE deleted(_item_delete(op_errors, bucket, Head(items_data).Key, client, cx, F))

\* the bulk removal with a seeded fault: the listing asks for 10000 keys,
\* whatever limit is
remove_folder_all(errs, bucket, prefix, limit, client, cx, F) ==
    LET looped(done) ==
            IF done.raised # NONE THEN Raise(done.raised, errs, done.cx)
            ELSE Ret(done.result, errs, done.cx)
        listed(items_data) ==
            IF items_data.raised # NONE THEN Raise(items_data.raised, errs, items_data.cx)
            ELSE IF IsNoneR(items_data.result)
            \* for item_data in None
            THEN Raise("TypeError", errs, items_data.cx)
            ELSE looped(remove_loop(items_data.result.v, items_data.errors, 0,
                                    limit, bucket, client, items_data.cx, F))
    IN  listed(aws_items_list(<<>>, bucket, prefix, 10000, NONE, cx, F))

\* the removal of the items of a folder, common to items_remove and
\* item_remove: the listing gets no client and its own error list op_errors,
\* which the loop shares and the caller's list never receives
remove_folder(errs, bucket, prefix, limit, client, cx, F) ==
    LET looped(done) ==
            IF done.raised # NONE THEN Raise(done.raised, errs, done.cx)
            ELSE Ret(done.result, errs, done.cx)
        listed(items_data) ==
            IF items_data.raised # NONE THEN Raise(items_data.raised, errs, items_data.cx)
            ELSE IF IsNoneR(items_data.result)
            \* for item_data in None
            THEN Raise("TypeError", errs, items_data.cx)
            ELSE looped(remove_loop(items_data.result.v, items_data.errors, 0,
                                    limit, bucket, client, items_data.cx, F))
    IN  listed(aws_items_list(<<>>, bucket, prefix, limit, NONE, cx, F))

\* the most items item_remove removes from a folder
ItemRemoveMax == 10000

\* item_remove(errors, bucket, prefix, identifier, client)
aws_item_remove(errs, bucket, prefix, identifier, client, cx, F) ==
    LET with_client(c) ==
            IF c.raised # NONE THEN c
            ELSE IF IsNoneR(c.result) THEN Ret(RInt(0), c.errors, c.cx)
            ELSE IF TruthyS(identifier)
            THEN _item_delete(c.errors, bucket, obj_key_of(prefix, identifier),
                              c.result.v, c.cx, F)
            ELSE remove_folder(c.errors, bucket, prefix, ItemRemoveMax, c.result.v,
                               c.cx, F)
    IN  with_client(client_or_get(errs, client, cx, F))

\* items_remove(errors, bucket, prefix, max_count, client)
aws_items_remove(errs, bucket, prefix, max_count, client, cx, F) ==
    LET with_client(c) ==
            IF c.raised # NONE THEN c
            ELSE IF IsNoneR(c.result) THEN Ret(RInt(0), c.errors, c.cx)
            ELSE remove_folder(c.errors, bucket, prefix, max_count, c.result.v, c.cx, F)
    IN  with_client(client_or_get(errs, client, cx, F))

----------------------------------------------------------------------------
(* minio_pomes: the MinIO adapter, as section 4.2 of the specification     *)
(* describes every adapter operation: the result on success, an empty      *)
(* result and no error when the vendor reports not-found, one error string *)
(* and the failure sentinel on any other vendor failure.  The MinIO        *)
(* service itself is not modelled: F decides what it answers.              *)

\* what the operation returns on success, with the service's data abstracted
MinioOk(op) ==
    CASE op \in {"startup", "data_store", "file_store"} -> RBool(TRUE)
      [] op = "get_client" -> RClient("minio-client")
      [] op = "data_retrieve" -> RBytes(<<109>>)
      [] op \in {"file_retrieve", "item_get_info", "item_get_tags"} -> RDict(EmptyDict)
      [] op \in {"item_remove", "items_remove"} -> RInt(1)
      [] OTHER -> RList(<<>>)

\* the empty result, also the failure sentinel
MinioEmpty(op) ==
    CASE op \in {"startup", "data_store", "file_store"} -> RBool(FALSE)
      [] op \in {"item_remove", "items_remove"} -> RInt(0)
      [] OTHER -> RNone

\* the interaction with the MinIO service, logged like those with AWS
minio_call(op, bucket, cx, F) ==
    [cx EXCEPT !.vcalls = Append(@, [call |-> "minio", client |-> "minio-client",
                                     bucket |-> bucket, key |-> <<>>,
                                     outcome |-> F.kind])]

minio_adapter(op, errs, bucket, cx, F) ==
    IF F.at = 0 THEN Ret(MinioOk(op), errs, minio_call(op, bucket, cx, F))
    ELSE IF F.kind = "NoSuchKey" THEN Ret(MinioEmpty(op), errs, minio_call(op, bucket, cx, F))
    ELSE LET m == _except_msg(errs, Exc(F.kind), "minio")
         IN  IF m.raised # NONE THEN Raise(m.raised, errs, minio_call(op, bucket, cx, F))
             ELSE Ret(MinioEmpty(op), m.errors, minio_call(op, bucket, cx, F))

----------------------------------------------------------------------------
(* s3_pomes: the facade.  Each function returns                            *)
(*   [result, errors, raised, cx, curr_engine, adapter, bucket, op_errors]:*)
(* the caller's error list as the call leaves it, the engine resolved, the *)
(* adapter invoked ("aws", "minio" or None), the bucket handed to it and   *)
(* the local error list op_errors as the adapter left it.                  *)

\* max_count = None
NoneI == -1

\* the max_count s3_items_list passes for None or 0
DefaultMaxCount == 1000

\* Resolve with a seeded fault: the default bucket is that of the first
\* configured engine, not that of the engine resolved
Resolve_first(engine, bucket) ==
    LET a == _assert_engine(<<>>, engine)
        b == IF Truthy(bucket) THEN [raised |-> NONE, value |-> bucket]
             ELSE _get_param(IF S3_ENGINES # <<>> THEN S3_ENGINES[1] ELSE a.result,
                             "bucket-name")
    IN  [engine |-> a.result, errors |-> a.errors, bucket |-> b.value,
         raised |-> b.raised]

\* the start of every facade function that resolves a bucket:
\*   op_errors = []
\*   curr_engine = _assert_engine(op_errors, engine)
\*   bucket = bucket or _get_param(curr_engine, "bucket-name")
\* [engine (curr_engine), errors (op_errors), bucket, raised]
Resolve(engine, bucket) ==
    LET a == _assert_engine(<<>>, engine)
        b == IF Truthy(bucket) THEN [raised |-> NONE, value |-> bucket]
             ELSE _get_param(a.result, "bucket-name")
    IN  [engine |-> a.result, errors |-> a.errors, bucket |-> b.value,
         raised |-> b.raised]

\* the adapter the facade dispatches to for a resolved engine
Adapter(engine) == IF engine \in {"aws", "minio"} THEN engine ELSE NONE

\* errors = None, for the functions whose signature allows it
NoList == <<[fmt |-> "None"]>>

\* the end of every facade function:
\*   errors.extend(op_errors)
\*   return result
\* with r what the adapter returned (or the initial result, when none ran);
\* None has no attribute 'extend'
Returned(errs, engine, adapter, bucket, r) ==
    [result |-> IF r.raised = NONE /\ errs = NoList THEN RNone ELSE r.result,
     errors |-> IF r.raised # NONE \/ errs = NoList THEN errs ELSE errs \o r.errors,
     raised |-> IF r.raised = NONE /\ errs = NoList THEN "AttributeError" ELSE r.raised,
     cx |-> r.cx,
     curr_engine |-> engine,
     adapter |-> adapter,
     bucket |-> bucket,
     op_errors |-> r.errors]

\* s3_get_client(errors, engine)
s3_get_client(errs, engine, cx, F) ==
    LET a == _assert_engine(<<>>, engine)
    IN  Returned(errs, a.result, Adapter(a.result), NONE,
                 IF a.result = "aws" THEN aws_get_client(a.errors, cx, F)
                 ELSE IF a.result = "minio"
                 THEN minio_adapter("get_client", a.errors, NONE, cx, F)
                 ELSE Ret(RNone, a.errors, cx))

\* s3_startup(errors, engine, bucket)
s3_startup(errs, engine, bucket, cx, F) ==
    LET rs == Resolve(engine, bucket)
    IN  IF rs.raised # NONE
        THEN Returned(errs, rs.engine, NONE, NONE, Raise(rs.raised, rs.errors, cx))
        ELSE Returned(errs, rs.engine, Adapter(rs.engine), rs.bucket,
                 IF rs.engine = "aws" THEN aws_startup(rs.errors, rs.bucket, cx, F)
                 ELSE IF rs.engine = "minio"
                 THEN minio_adapter("startup", rs.errors, rs.bucket, cx, F)
                 ELSE Ret(RBool(FALSE), rs.errors, cx))

\* s3_data_retrieve(errors, prefix, identifier, data_range, bucket, engine, client)
s3_data_retrieve(errs, prefix, identifier, data_range, bucket, engine, client, cx, F) ==
    LET rs == Resolve(engine, bucket)
    IN  IF rs.raised # NONE
        THEN Returned(errs, rs.engine, NONE, NONE, Raise(rs.raised, rs.errors, cx))
        ELSE Returned(errs, rs.engine, Adapter(rs.engine), rs.bucket,
                 IF rs.engine = "aws"
                 THEN aws_data_retrieve(rs.errors, rs.bucket, prefix, identifier,
                                        data_range, client, cx, F)
                 ELSE IF rs.engine = "minio"
                 THEN minio_adapter("data_retrieve", rs.errors, rs.bucket, cx, F)
                 ELSE Ret(RNone, rs.errors, cx))

\* s3_data_store(errors, prefix, identifier, data, mimetype, tags, bucket, engine, client)
s3_data_store(errs, prefix, identifier, data, mimetype, tags, bucket, engine, client, cx, F) ==
    LET rs == Resolve(engine, bucket)
    IN  IF rs.raised # NONE
        THEN Returned(errs, rs.engine, NONE, NONE, Raise(rs.raised, rs.errors, cx))
        ELSE Returned(errs, rs.engine, Adapter(rs.engine), rs.bucket,
                 IF rs.engine = "aws"
                 THEN aws_data_store(rs.errors, rs.bucket, prefix, identifier, data,
                                     mimetype, tags, client, cx, F)
                 ELSE IF rs.engine = "minio"
                 THEN minio_adapter("data_store", rs.errors, rs.bucket, cx, F)
                 ELSE Ret(RNone, rs.errors, cx))

\* s3_file_retrieve(errors, prefix, identifier, filepath, bucket, engine, client)
s3_file_retrieve(errs, prefix, identifier, bucket, engine, client, cx, F) ==
    LET rs == Resolve(engine, bucket)
    IN  IF rs.raised # NONE
        THEN Returned(errs, rs.engine, NONE, NONE, Raise(rs.raised, rs.errors, cx))
        ELSE Returned(errs, rs.engine, Adapter(rs.engine), rs.bucket,
                 IF rs.engine = "aws"
                 THEN aws_file_retrieve(rs.errors, prefix, identifier, rs.bucket,
                                        client, cx, F)
                 ELSE IF rs.engine = "minio"
                 THEN minio_adapter("file_retrieve", rs.errors, rs.bucket, cx, F)
                 ELSE Ret(RNone, rs.errors, cx))

\* s3_file_store(errors, prefix, identifier, filepath, mimetype, tags, bucket, engine, client)
s3_file_store(errs, prefix, identifier, mimetype, tags, bucket, engine, client, cx, F) ==
    LET rs == Resolve(engine, bucket)
    IN  IF rs.raised # NONE
        THEN Returned(errs, rs.engine, NONE, NONE, Raise(rs.raised, rs.errors, cx))
        ELSE Returned(errs, rs.engine, Adapter(rs.engine), rs.bucket,
                 IF rs.engine = "aws"
                 THEN aws_file_store(rs.errors, rs.bucket, prefix, identifier, mimetype,
                                     tags, client, cx, F)
                 ELSE IF rs.engine = "minio"
                 THEN minio_adapter("file_store", rs.errors, rs.bucket, cx, F)
                 ELSE Ret(RBool(FALSE), rs.errors, cx))

\* s3_item_get_info with a seeded fault: the adapters are taken one for the
\* other
s3_item_get_info_swapped(errs, prefix, identifier, bucket, engine, client, cx, F) ==
    LET rs == Resolve(engine, bucket)
    IN  IF rs.raised # NONE
        THEN Returned(errs, rs.engine, NONE, NONE, Raise(rs.raised, rs.errors, cx))
        ELSE Returned(errs, rs.engine, Adapter(rs.engine), rs.bucket,
                 IF rs.engine = "minio"
                 THEN aws_item_get_info(rs.errors, prefix, identifier, rs.bucket,
                                        client, cx, F)
                 ELSE IF rs.engine = "aws"
                 THEN minio_adapter("item_get_info", rs.errors, rs.bucket, cx, F)
                 ELSE Ret(RNone, rs.errors, cx))

\* s3_item_get_info(errors, prefix, identifier, bucket, engine, client)
s3_item_get_info(errs, prefix, identifier, bucket, engine, client, cx, F) ==
    LET rs == Resolve(engine, bucket)
    IN  IF rs.raised # NONE
        THEN Returned(errs, rs.engine, NONE, NONE, Raise(rs.raised, rs.errors, cx))
        ELSE Returned(errs, rs.engine, Adapter(rs.engine), rs.bucket,
                 IF rs.engine = "aws"
                 THEN aws_item_get_info(rs.errors, prefix, identifier, rs.bucket,
                                        client, cx, F)
                 ELSE IF rs.engine = "minio"
                 THEN minio_adapter("item_get_info", rs.errors, rs.bucket, cx, F)
                 ELSE Ret(RNone, rs.errors, cx))

\* s3_item_get_tags(errors, prefix, identifier, bucket, engine, client)
s3_item_get_tags(errs, prefix, identifier, bucket, engine, client, cx, F) ==
    LET rs == Resolve(engine, bucket)
    IN  IF rs.raised # NONE
        THEN Returned(errs, rs.engine, NONE, NONE, Raise(rs.raised, rs.errors, cx))
        ELSE Returned(errs, rs.engine, Adapter(rs.engine), rs.bucket,
                 IF rs.engine = "aws"
                 THEN aws_item_get_tags(rs.errors, rs.bucket, prefix, identifier,
                                        client, cx, F)
                 ELSE IF rs.engine = "minio"
                 THEN minio_adapter("item_get_tags", rs.errors, rs.bucket, cx, F)
                 ELSE Ret(RNone, rs.errors, cx))

\* s3_item_remove(errors, prefix, identifier, bucket, engine, client)
s3_item_remove(errs, prefix, identifier, bucket, engine, client, cx, F) ==
    LET rs == Resolve(engine, bucket)
    IN  IF rs.raised # NONE
        THEN Returned(errs, rs.engine, NONE, NONE, Raise(rs.raised, rs.errors, cx))
        ELSE Returned(errs, rs.engine, Adapter(rs.engine), rs.bucket,
                 IF rs.engine = "aws"
                 THEN aws_item_remove(rs.errors, rs.bucket, prefix, identifier,
                                      client, cx, F)
                 ELSE IF rs.engine = "minio"
                 THEN minio_adapter("item_remove", rs.errors, rs.bucket, cx, F)
                 ELSE Ret(RInt(0), rs.errors, cx))

\* s3_items_list with a seeded fault: max_count is passed on as it is given
s3_items_list_asis(errs, prefix, max_count, bucket, engine, client, cx, F) ==
    LET rs == Resolve(engine, bucket)
        count == max_count
    IN  IF rs.raised # NONE
        THEN Returned(errs, rs.engine, NONE, NONE, Raise(rs.raised, rs.errors, cx))
        ELSE Returned(errs, rs.engine, Adapter(rs.engine), rs.bucket,
                 IF rs.engine = "aws"
                 THEN aws_items_list(rs.errors, rs.bucket, prefix, count, client, cx, F)
                 ELSE IF rs.engine = "minio"
                 THEN minio_adapter("items_list", rs.errors, rs.bucket, cx, F)
                 ELSE Ret(RNone, rs.errors, cx))

\* s3_items_list(errors, prefix, max_count, bucket, engine, client)
s3_items_list(errs, prefix, max_count, bucket, engine, client, cx, F) ==
    LET rs == Resolve(engine, bucket)
        count == IF max_count = NoneI \/ max_count = 0 THEN DefaultMaxCount
                 ELSE max_count
    IN  IF rs.raised # NONE
        THEN Returned(errs, rs.engine, NONE, NONE, Raise(rs.raised, rs.errors, cx))
        ELSE Returned(errs, rs.engine, Adapter(rs.engine), rs.bucket,
                 IF rs.engine = "aws"
                 THEN aws_items_list(rs.errors, rs.bucket, prefix, count, client, cx, F)
                 ELSE IF rs.engine = "minio"
                 THEN minio_adapter("items_list", rs.errors, rs.bucket, cx, F)
                 ELSE Ret(RNone, rs.errors, cx))

\* s3_items_remove(errors, prefix, max_count, bucket, engine, client)
s3_items_remove(errs, prefix, max_count, bucket, engine, client, cx, F) ==
    LET rs == Resolve(engine, bucket)
    IN  IF rs.raised # NONE
        THEN Returned(errs, rs.engine, NONE, NONE, Raise(rs.raised, rs.errors, cx))
        ELSE Returned(errs, rs.engine, Adapter(rs.engine), rs.bucket,
                 IF rs.engine = "aws"
                 THEN aws_items_remove(rs.errors, rs.bucket, prefix, max_count,
                                       client, cx, F)
                 ELSE IF rs.engine = "minio"
                 THEN minio_adapter("items_remove", rs.errors, rs.bucket, cx, F)
                 ELSE Ret(RInt(0), rs.errors, cx))

\* s3_setup with a seeded fault: the engine is not checked
s3_setup_any(engine, endpoint_url, bucket_name, access_key, secret_key, region_name, secure_access) ==
    IF Truthy(endpoint_url) /\ Truthy(bucket_name)
       /\ Truthy(access_key) /\ Truthy(secret_key)
    THEN [result |-> TRUE,
          data |-> DictSet(S3_ACCESS_DATA, engine,
                           [k \in {"endpoint-url", "bucket-name", "access-key",
                                   "secret-key", "secure-access", "region-name"} |->
                               CASE k = "endpoint-url" -> endpoint_url
                                 [] k = "bucket-name" -> bucket_name
                                 [] k = "access-key" -> access_key
                                 [] k = "secret-key" -> secret_key
                                 [] k = "secure-access" -> secure_access
                                 [] OTHER -> region_name]),
          engines |-> IF engine \notin Members(S3_ENGINES)
                      THEN Append(S3_ENGINES, engine) ELSE S3_ENGINES]
    ELSE [result |-> FALSE, data |-> S3_ACCESS_DATA, engines |-> S3_ENGINES]

\* s3_setup with a seeded fault: the engine set up becomes the first one
s3_setup_front(engine, endpoint_url, bucket_name, access_key, secret_key, region_name, secure_access) ==
    IF engine \in {"aws", "minio"} /\ Truthy(endpoint_url) /\ Truthy(bucket_name)
       /\ Truthy(access_key) /\ Truthy(secret_key)
    THEN [result |-> TRUE,
          data |-> DictSet(S3_ACCESS_DATA, engine,
                           [k \in {"endpoint-url", "bucket-name", "access-key",
                                   "secret-key", "secure-access", "region-name"} |->
                               CASE k = "endpoint-url" -> endpoint_url
                                 [] k = "bucket-name" -> bucket_name
                                 [] k = "access-key" -> access_key
                                 [] k = "secret-key" -> secret_key
                                 [] k = "secure-access" -> secure_access
                                 [] OTHER -> region_name]),
          engines |-> <<engine>> \o SelectSeq(S3_ENGINES, LAMBDA e : e # engine)]
    ELSE [result |-> FALSE, data |-> S3_ACCESS_DATA, engines |-> S3_ENGINES]

\* s3_setup(engine, endpoint_url, bucket_name, access_key, secret_key,
\*          region_name, secure_access): [result, engines, data]
s3_setup(engine, endpoint_url, bucket_name, access_key, secret_key, region_name, secure_access) ==
    IF engine \in {"aws", "minio"} /\ Truthy(endpoint_url) /\ Truthy(bucket_name)
       /\ Truthy(access_key) /\ Truthy(secret_key)
    THEN [result |-> TRUE,
          data |-> DictSet(S3_ACCESS_DATA, engine,
                           [k \in {"endpoint-url", "bucket-name", "access-key",
                                   "secret-key", "secure-access", "region-name"} |->
                               CASE k = "endpoint-url" -> endpoint_url
                                 [] k = "bucket-name" -> bucket_name
                                 [] k = "access-key" -> access_key
                                 [] k = "secret-key" -> secret_key
                                 [] k = "secure-access" -> secure_access
                                 [] OTHER -> region_name]),
          engines |-> IF engine \notin Members(S3_ENGINES)
                      THEN Append(S3_ENGINES, engine) ELSE S3_ENGINES]
    ELSE [result |-> FALSE, data |-> S3_ACCESS_DATA, engines |-> S3_ENGINES]

\* an object of the configuration handed out: its entries, and ref, the
\* object it is ("_S3_ENGINES", or the engine whose dict of _S3_ACCESS_DATA
\* it is); "new" for an object made for the caller
Object(t, v, ref) == [t |-> t, v |-> v, ref |-> ref]

\* list.copy() and dict(d): a new object with the entries of obj
copy(obj) == [obj EXCEPT !.ref = "new"]

\* curr_engine = _S3_ENGINES[0] if not engine and _S3_ENGINES else engine
default_engine(engine) ==
    IF ~Truthy(engine) /\ S3_ENGINES # <<>> THEN S3_ENGINES[1] ELSE engine

\* s3_get_engines with a seeded fault: the list itself is returned
s3_get_engines_live ==
    [result |-> Object("list", S3_ENGINES, "_S3_ENGINES"), raised |-> NONE]

\* s3_get_engines(): [result, raised]
s3_get_engines ==
    [result |-> copy(Object("list", S3_ENGINES, "_S3_ENGINES")), raised |-> NONE]

\* s3_get_param(key, engine): [raised, value]
s3_get_param(key, engine) == _get_param(default_engine(engine), key)

\* s3_get_params with a seeded fault: the dict itself is returned
s3_get_params_live(engine) ==
    IF default_engine(engine) \in DOMAIN S3_ACCESS_DATA
    THEN [result |-> Object("dict", S3_ACCESS_DATA[default_engine(engine)],
                            default_engine(engine)),
          raised |-> NONE]
    ELSE [result |-> RNone, raised |-> "TypeError"]

\* s3_get_params(engine): [result, raised]; dict(None) is a TypeError
s3_get_params(engine) ==
    IF default_engine(engine) \in DOMAIN S3_ACCESS_DATA
    THEN [result |-> copy(Object("dict", S3_ACCESS_DATA[default_engine(engine)],
                                 default_engine(engine))),
          raised |-> NONE]
    ELSE [result |-> RNone, raised |-> "TypeError"]

\* pickle.dumps(obj): the serialized object, a protocol byte and the content;
\* an exception for an object that cannot be pickled
pickle_dumps(obj) ==
    IF obj.pickles THEN [raised |-> NONE, value |-> <<128, obj.v>>]
    ELSE [raised |-> "PicklingError", value |-> <<>>]

\* pickle.loads(data): the object, or an exception when data is no pickle
pickle_loads(data) ==
    IF Len(data) = 2 /\ data[1] = 128
    THEN [raised |-> NONE, value |-> [t |-> "object", v |-> [pickles |-> TRUE, v |-> data[2]]]]
    ELSE [raised |-> "UnpicklingError", value |-> RNone]

\* s3_object_retrieve(errors, prefix, identifier, bucket, engine, client);
\* the except branch is errors.append(_except_msg(exception=e, engine="minio")),
\* a call that lacks the arguments errors and logger: a TypeError, raised
\* with the caller's list as s3_data_retrieve left it
s3_object_retrieve(errs, prefix, identifier, bucket, engine, client, cx, F) ==
    LET unmarshalled(d) ==
            IF d.raised # NONE THEN d
            ELSE IF d.result.t = "bytes" /\ d.result.v # <<>>
            THEN IF pickle_loads(d.result.v).raised = NONE
                 THEN [d EXCEPT !.result = pickle_loads(d.result.v).value]
                 ELSE [d EXCEPT !.result = RNone, !.raised = "TypeError"]
            ELSE [d EXCEPT !.result = RNone]
    IN  unmarshalled(s3_data_retrieve(errs, prefix, identifier, <<>>, bucket, engine,
                                      client, cx, F))

\* s3_object_store(errors, prefix, identifier, obj, tags, bucket, engine,
\* client), with the same except branch
s3_object_store(errs, prefix, identifier, obj, tags, bucket, engine, client, cx, F) ==
    IF pickle_dumps(obj).raised # NONE
    THEN Returned(errs, NONE, NONE, NONE, Raise("TypeError", <<>>, cx))
    ELSE s3_data_store(errs, prefix, identifier,
                       [type |-> "bytes", val |-> pickle_dumps(obj).value],
                       MIMETYPE_BINARY, tags, bucket, engine, client, cx, F)

\* s3_assert_access(errors, engine): s3_get_client(...) is not None
s3_assert_access(errs, engine, cx, F) ==
    LET is_not_none(c) == IF c.raised # NONE THEN c
                          ELSE [c EXCEPT !.result = RBool(~IsNoneR(c.result))]
    IN  is_not_none(s3_get_client(errs, engine, cx, F))

\* isinstance(x, dict) and len(x) > 0, isinstance(x, list) and len(x) > 0
NonEmpty(r, t) == r.t = t /\ (IF t = "dict" THEN DOMAIN r.v # {} ELSE r.v # <<>>)

\* s3_item_exists(errors, prefix, identifier, bucket, engine, client)
s3_item_exists(errs, prefix, identifier, bucket, engine, client, cx, F) ==
    LET decided(r, t) ==
            IF r.raised # NONE THEN [r EXCEPT !.errors = errs]
            ELSE IF r.errors # <<>>
            THEN [r EXCEPT !.result = RNone, !.errors = errs \o r.errors]
            ELSE [r EXCEPT !.result = RBool(NonEmpty(r.result, t)), !.errors = errs]
    IN  IF TruthyS(identifier)
        THEN decided(s3_item_get_info(<<>>, prefix, identifier, bucket, engine, client,
                                      cx, F), "dict")
        ELSE decided(s3_items_list(<<>>, prefix, 1, bucket, engine, client, cx, F),
                     "list")

----------------------------------------------------------------------------
(* The arguments the calls are made with *)

docs == <<"d", "o", "c", "s">>
a_txt == <<"a", ".", "t", "x", "t">>

\* (prefix, identifier): docs/a.txt, and docs/b given with a trailing '/'
KeyArgs == { <<docs, a_txt>>, <<docs \o <<"/">>, <<"b">>>> }

\* the folder marker of docs, a key the adapter itself never writes
docs_marker == docs \o <<"/">>

hello == <<104, 101, 108, 108, 111>>

\* (prefix, identifier, data, mimetype, tags) of a store: 'hello' as text and
\* U+00E9 as text at docs/a.txt, the two bytes of U+00E9 as bytes at docs/b
StoreArgs ==
    { <<docs, a_txt, [type |-> "str", val |-> hello], "text/plain", "tag-a">>,
      <<docs, a_txt, [type |-> "str", val |-> <<233>>], MIMETYPE_BINARY, NONE>>,
      <<docs \o <<"/">>, <<"b">>, [type |-> "bytes", val |-> <<195, 169>>],
        MIMETYPE_BINARY, NONE>> }

\* the local file of a file_store: missing, or holding 'hello'
LocalFiles == { NoFileL, [exists |-> TRUE, body |-> hello] }

EngineArgs == {NONE, "aws", "minio", "gcs"}
BucketArgs == {NONE, "bk2"}
ClientArgs == {NONE, "cli"}

\* the fault plans of a call which, met by no fault, makes the interactions
\* vcalls (o is that call): one fault at one of them, "NoSuchKey" only where
\* an object is addressed and "Timeout" only where the client is made; for a
\* call that lists, also the reply without 'Contents'.  The MinIO adapter is
\* decided by the plan alone.
Plans(o) ==
    IF o.adapter = "minio" THEN {f \in Faults(1) : ~f.omit}
    ELSE {NoFault}
         \cup {[at |-> 0, kind |-> "ok", omit |-> TRUE] : i \in
                  {k \in 1..Len(o.cx.vcalls) : o.cx.vcalls[k].call = "list_objects_v2"}}
         \cup {f \in Faults(Len(o.cx.vcalls)) :
                  /\ f.at > 0
                  /\ f.kind = "NoSuchKey" => o.cx.vcalls[f.at].call \in KeyedCalls
                  /\ o.cx.vcalls[f.at].call = "boto3.client" => f.kind = "Timeout"}

\* a call that names its engine is made with the first of the other
\* arguments only: their variety is explored on the default engine
Pick(engine, bucket, S) == IF engine = NONE THEN S ELSE {CHOOSE x \in S : TRUE}

\* the arguments of s3_setup
SetupArgs ==
    { [engine |-> "aws", endpoint_url |-> "url-a", bucket_name |-> "bk1",
       access_key |-> "ak", secret_key |-> "sk", region_name |-> "r1",
       secure_access |-> "True"],
      [engine |-> "minio", endpoint_url |-> "url-m", bucket_name |-> "bk2",
       access_key |-> "ak", secret_key |-> "sk", region_name |-> NONE,
       secure_access |-> "False"],
      [engine |-> "gcs", endpoint_url |-> "url-g", bucket_name |-> "bk1",
       access_key |-> "ak", secret_key |-> "sk", region_name |-> NONE,
       secure_access |-> NONE],
      [engine |-> "aws", endpoint_url |-> "", bucket_name |-> "bk1",
       access_key |-> "ak", secret_key |-> "sk", region_name |-> "r1",
       secure_access |-> NONE],
      [engine |-> "minio", endpoint_url |-> "url-m", bucket_name |-> "bk2",
       access_key |-> "ak", secret_key |-> NONE, region_name |-> NONE,
       secure_access |-> NONE] }

\* the arguments of a call, each at its default
NoArgs ==
    [engine |-> NONE, bucket |-> NONE, client |-> NONE,
     prefix |-> <<>>, identifier |-> <<>>, data_range |-> <<>>,
     max_count |-> NoneI, data |-> [type |-> "bytes", val |-> <<>>],
     mimetype |-> NONE, tags |-> NONE, setup |-> NONE, plan |-> NoFault,
     key |-> NONE, obj |-> NONE, env |-> NONE]

----------------------------------------------------------------------------
(* The state machine *)

\* the threads of a concurrent run: two that call s3_setup and one that
\* calls a facade operation
SetupThreads == {"setup1", "setup2"}
CallThreads == {"call1"}

\* a thread that is in no call
Idle == [pc |-> "idle", setup |-> NONE, engine |-> NONE, resolved |-> NONE,
         raised |-> NONE]

\* the record of a call
Call(op, args, errs, o) ==
    [op |-> op, args |-> args,
     result |-> o.result, raised |-> o.raised,
     curr_engine |-> o.curr_engine, adapter |-> o.adapter, bucket |-> o.bucket,
     op_errors |-> o.op_errors,
     errors_before |-> errs, errors_after |-> o.errors,
     vcalls |-> o.cx.vcalls,
     store_before |-> store, file |-> o.cx.file]

NoCall(op) ==
    [op |-> op, args |-> NoArgs,
     result |-> RNone, raised |-> NONE,
     curr_engine |-> NONE, adapter |-> NONE, bucket |-> NONE,
     op_errors |-> <<>>,
     errors_before |-> <<>>, errors_after |-> <<>>,
     vcalls |-> <<>>,
     store_before |-> store, file |-> NoFileL]

\* the service and the local file as a call finds them
Cx(file) == [store |-> store, vcalls |-> <<>>, file |-> file]

\* the history after a call: an entry lasts while its object is in the store
\* and no put or upload has succeeded on its key; a put by s3_data_store that
\* succeeded adds the entry of its key: what was stored, and where
Written(op, args, o) ==
    LET puts(calls) == {<<o.cx.vcalls[i].bucket, o.cx.vcalls[i].key>> :
                           i \in {j \in 1..Len(o.cx.vcalls) :
                                     /\ o.cx.vcalls[j].call \in calls
                                     /\ o.cx.vcalls[j].outcome = "ok"}}
        kept == {bk \in DOMAIN written :
                    /\ bk[1] \in DOMAIN o.cx.store
                    /\ bk[2] \in DOMAIN o.cx.store[bk[1]]
                    /\ bk \notin puts({"put_object", "upload_file"})}
        new == IF op = "s3_data_store" THEN puts({"put_object"}) ELSE {}
    IN  [bk \in kept \cup new |->
            IF bk \in new
            THEN [data |-> args.data, mimetype |-> args.mimetype,
                  prefix |-> args.prefix, identifier |-> args.identifier]
            ELSE written[bk]]

\* a facade call is done: the service, the caller's list and the record of
\* the call; the configuration is left alone
Done(op, args, errs, o) ==
    /\ NumObjects(o.cx.store) <= MaxObjects
    /\ store' = o.cx.store
    /\ errors' = o.errors
    /\ last' = Call(op, args, errs, o)
    /\ written' = Written(op, args, o)
    /\ UNCHANGED <<S3_ENGINES, S3_ACCESS_DATA, threads>>

\* the module is loaded: the configuration comes from the environment; the
\* service holds the bucket bk1, empty
Init ==
    /\ \E env \in Environments :
          /\ S3_ENGINES = env_engines(env)
          /\ S3_ACCESS_DATA = env_access_data(env_engines(env),
                                              Truthy(env.S3_ENGINE), EmptyDict)
    /\ store = [b \in {"bk1"} |-> EmptyDict]
    /\ errors = <<>>
    /\ written = [bk \in {} |-> NONE]
    /\ threads = [t \in SetupThreads \cup CallThreads |-> Idle]
    /\ last = [op |-> "idle", args |-> NoArgs,
               result |-> RNone, raised |-> NONE,
               curr_engine |-> NONE, adapter |-> NONE, bucket |-> NONE,
               op_errors |-> <<>>,
               errors_before |-> <<>>, errors_after |-> <<>>,
               vcalls |-> <<>>,
               store_before |-> [b \in {"bk1"} |-> EmptyDict], file |-> NoFileL]

\* the caller is done with the result of its call and with its error list
Forget ==
    /\ last.op # "idle"
    /\ last' = NoCall("idle")
    /\ errors' = <<>>
    /\ UNCHANGED <<S3_ENGINES, S3_ACCESS_DATA, store, written, threads>>

Setup ==
    /\ last.op = "idle"
    /\ \E a \in SetupArgs :
        LET r == s3_setup(a.engine, a.endpoint_url, a.bucket_name, a.access_key,
                          a.secret_key, a.region_name, a.secure_access)
        IN  /\ S3_ENGINES' = r.engines
            /\ S3_ACCESS_DATA' = r.data
            /\ last' = [NoCall("s3_setup") EXCEPT !.args.setup = a,
                                                  !.args.engine = a.engine,
                                                  !.result = RBool(r.result)]
            /\ errors' = <<>>
            /\ UNCHANGED <<store, written, threads>>

\* another client of the service writes the folder marker docs/ to bk1
OtherClientPut ==
    /\ last.op = "idle"
    /\ docs_marker \notin DOMAIN store["bk1"]
    /\ NumObjects(store) < MaxObjects
    /\ store' = PutKey(store, "bk1", docs_marker,
                       [body |-> <<>>, ctype |-> "application/x-directory",
                        meta |-> RDict(EmptyDict)])
    /\ last' = NoCall("idle")
    /\ UNCHANGED <<S3_ENGINES, S3_ACCESS_DATA, errors, written, threads>>

GetClient ==
    /\ last.op = "idle"
    /\ \E errs \in ErrorLists \cup {<<>>}, engine \in EngineArgs \cup {""} :
        \E F \in Plans(s3_get_client(errs, engine, Cx(NoFileL), NoFault)) :
            Done("s3_get_client", [NoArgs EXCEPT !.plan = F, !.engine = engine], errs,
                 s3_get_client(errs, engine, Cx(NoFileL), F))

Startup ==
    /\ last.op = "idle"
    /\ \E errs \in ErrorLists, engine \in EngineArgs, bucket \in BucketArgs :
        \E F \in Plans(s3_startup(errs, engine, bucket, Cx(NoFileL), NoFault)) :
            Done("s3_startup", [NoArgs EXCEPT !.plan = F, !.engine = engine, !.bucket = bucket], errs,
                 s3_startup(errs, engine, bucket, Cx(NoFileL), F))

DataRetrieve ==
    /\ last.op = "idle"
    /\ \E errs \in ErrorLists, engine \in EngineArgs, bucket \in BucketArgs :
        \E client \in Pick(engine, bucket, ClientArgs) :
        \E k \in Pick(engine, bucket, (KeyArgs \X {<<>>}) \cup {<<<<docs, a_txt>>, <<0, 0>>>>}) :
        \E F \in Pick(engine, bucket, Plans(s3_data_retrieve(errs, k[1][1], k[1][2], k[2], bucket,
                                                     engine, client, Cx(NoFileL), NoFault))) :
            Done("s3_data_retrieve",
                 [NoArgs EXCEPT !.plan = F, !.engine = engine, !.bucket = bucket, !.client = client,
                                !.prefix = k[1][1], !.identifier = k[1][2],
                                !.data_range = k[2]],
                 errs,
                 s3_data_retrieve(errs, k[1][1], k[1][2], k[2], bucket, engine, client,
                                  Cx(NoFileL), F))

DataStore ==
    /\ last.op = "idle"
    /\ \E errs \in ErrorLists, engine \in EngineArgs, bucket \in BucketArgs :
        \E client \in Pick(engine, bucket, ClientArgs) :
        \E d \in Pick(engine, bucket, StoreArgs) :
        \E F \in Pick(engine, bucket,
                      Plans(s3_data_store(errs, d[1], d[2], d[3], d[4], d[5], bucket,
                                          engine, client, Cx(NoFileL), NoFault))) :
            Done("s3_data_store",
                 [NoArgs EXCEPT !.plan = F, !.engine = engine, !.bucket = bucket, !.client = client,
                                !.prefix = d[1], !.identifier = d[2],
                                !.data = d[3], !.mimetype = d[4], !.tags = d[5]],
                 errs,
                 s3_data_store(errs, d[1], d[2], d[3], d[4], d[5], bucket, engine, client,
                               Cx(NoFileL), F))

FileRetrieve ==
    /\ last.op = "idle"
    /\ \E errs \in ErrorLists, engine \in EngineArgs, bucket \in BucketArgs :
        \E client \in Pick(engine, bucket, ClientArgs), k \in Pick(engine, bucket, KeyArgs) :
        \E F \in Pick(engine, bucket, Plans(s3_file_retrieve(errs, k[1], k[2], bucket, engine, client,
                                                     Cx(NoFileL), NoFault))) :
            Done("s3_file_retrieve",
                 [NoArgs EXCEPT !.plan = F, !.engine = engine, !.bucket = bucket, !.client = client,
                                !.prefix = k[1], !.identifier = k[2]],
                 errs,
                 s3_file_retrieve(errs, k[1], k[2], bucket, engine, client, Cx(NoFileL), F))

FileStore ==
    /\ last.op = "idle"
    /\ \E errs \in ErrorLists, engine \in EngineArgs, bucket \in BucketArgs :
        \E client \in Pick(engine, bucket, ClientArgs), k \in {<<docs, a_txt>>} :
        \E file \in Pick(engine, bucket, LocalFiles) :
        \E F \in Pick(engine, bucket, Plans(s3_file_store(errs, k[1], k[2], "text/plain", "tag-a",
                                                  bucket, engine, client, Cx(file), NoFault))) :
            Done("s3_file_store",
                 [NoArgs EXCEPT !.plan = F, !.engine = engine, !.bucket = bucket, !.client = client,
                                !.prefix = k[1], !.identifier = k[2],
                                !.mimetype = "text/plain", !.tags = "tag-a"],
                 errs,
                 s3_file_store(errs, k[1], k[2], "text/plain", "tag-a", bucket, engine,
                               client, Cx(file), F))

ItemGetInfo ==
    /\ last.op = "idle"
    /\ \E errs \in ErrorLists, engine \in EngineArgs, bucket \in BucketArgs :
        \E client \in Pick(engine, bucket, ClientArgs), k \in Pick(engine, bucket, KeyArgs) :
        \E F \in Pick(engine, bucket, Plans(s3_item_get_info(errs, k[1], k[2], bucket, engine, client,
                                                     Cx(NoFileL), NoFault))) :
            Done("s3_item_get_info",
                 [NoArgs EXCEPT !.plan = F, !.engine = engine, !.bucket = bucket, !.client = client,
                                !.prefix = k[1], !.identifier = k[2]],
                 errs,
                 s3_item_get_info(errs, k[1], k[2], bucket, engine, client, Cx(NoFileL), F))

ItemGetTags ==
    /\ last.op = "idle"
    /\ \E errs \in ErrorLists, engine \in EngineArgs, bucket \in BucketArgs :
        \E client \in Pick(engine, bucket, ClientArgs), k \in Pick(engine, bucket, KeyArgs) :
        \E F \in Pick(engine, bucket, Plans(s3_item_get_tags(errs, k[1], k[2], bucket, engine, client,
                                                     Cx(NoFileL), NoFault))) :
            Done("s3_item_get_tags",
                 [NoArgs EXCEPT !.plan = F, !.engine = engine, !.bucket = bucket, !.client = client,
                                !.prefix = k[1], !.identifier = k[2]],
                 errs,
                 s3_item_get_tags(errs, k[1], k[2], bucket, engine, client, Cx(NoFileL), F))

ItemRemove ==
    /\ last.op = "idle"
    /\ \E errs \in ErrorLists, engine \in EngineArgs, bucket \in BucketArgs :
        \E client \in Pick(engine, bucket, ClientArgs) :
        \E k \in Pick(engine, bucket, KeyArgs \cup {<<docs, NoneS>>}) :
        \E F \in Pick(engine, bucket, Plans(s3_item_remove(errs, k[1], k[2], bucket, engine, client,
                                                   Cx(NoFileL), NoFault))) :
            Done("s3_item_remove",
                 [NoArgs EXCEPT !.plan = F, !.engine = engine, !.bucket = bucket, !.client = client,
                                !.prefix = k[1], !.identifier = k[2]],
                 errs,
                 s3_item_remove(errs, k[1], k[2], bucket, engine, client, Cx(NoFileL), F))

ItemsList ==
    /\ last.op = "idle"
    /\ \E errs \in ErrorLists, engine \in EngineArgs, bucket \in BucketArgs :
        \E client \in Pick(engine, bucket, ClientArgs) :
        \E k \in Pick(engine, bucket, ({docs} \X ({NoneI} \cup (0..MaxCount)))
                              \cup {<<docs_marker, NoneI>>}) :
        \E F \in Pick(engine, bucket, Plans(s3_items_list(errs, k[1], k[2], bucket, engine, client,
                                                  Cx(NoFileL), NoFault))) :
            Done("s3_items_list",
                 [NoArgs EXCEPT !.plan = F, !.engine = engine, !.bucket = bucket, !.client = client,
                                !.prefix = k[1], !.max_count = k[2]],
                 errs,
                 s3_items_list(errs, k[1], k[2], bucket, engine, client, Cx(NoFileL), F))

ItemsRemove ==
    /\ last.op = "idle"
    /\ \E errs \in ErrorLists, engine \in EngineArgs, bucket \in BucketArgs :
        \E client \in Pick(engine, bucket, ClientArgs), max_count \in Pick(engine, bucket, 0..MaxCount) :
        \E F \in Pick(engine, bucket, Plans(s3_items_remove(errs, docs, max_count, bucket, engine,
                                                    client, Cx(NoFileL), NoFault))) :
            Done("s3_items_remove",
                 [NoArgs EXCEPT !.plan = F, !.engine = engine, !.bucket = bucket, !.client = client,
                                !.prefix = docs, !.max_count = max_count],
                 errs,
                 s3_items_remove(errs, docs, max_count, bucket, engine, client,
                                 Cx(NoFileL), F))

\* a string returned, or None
RStr(x) == IF x = NONE THEN RNone ELSE [t |-> "str", v |-> x]

GetEngines ==
    /\ last.op = "idle"
    /\ last' = [NoCall("s3_get_engines") EXCEPT !.result = s3_get_engines.result]
    /\ UNCHANGED <<S3_ENGINES, S3_ACCESS_DATA, store, errors, written, threads>>

GetParam ==
    /\ last.op = "idle"
    /\ \E key \in {"bucket-name", "region-name"}, engine \in EngineArgs :
          last' = [NoCall("s3_get_param") EXCEPT
                      !.args.key = key, !.args.engine = engine,
                      !.result = RStr(s3_get_param(key, engine).value),
                      !.raised = s3_get_param(key, engine).raised]
    /\ UNCHANGED <<S3_ENGINES, S3_ACCESS_DATA, store, errors, written, threads>>

GetParams ==
    /\ last.op = "idle"
    /\ \E engine \in EngineArgs :
          last' = [NoCall("s3_get_params") EXCEPT
                      !.args.engine = engine,
                      !.result = s3_get_params(engine).result,
                      !.raised = s3_get_params(engine).raised]
    /\ UNCHANGED <<S3_ENGINES, S3_ACCESS_DATA, store, errors, written, threads>>

\* the changes a caller makes to a list it was returned
ListChanges(l) ==
    {Append(l, "gcs")} \cup (IF l = <<>> THEN {} ELSE {Tail(l), [l EXCEPT ![1] = "gcs"]})

\* the changes a caller makes to a dict it was returned
DictChanges(d) ==
    {DictSet(d, "bucket-name", "other"), DictSet(d, "extra", "x"),
     [k \in (DOMAIN d) \ {"bucket-name"} |-> d[k]]}

\* the caller changes the list or dict that s3_get_engines or s3_get_params
\* returned to it: the object changed is the one returned, which is part of
\* the configuration only if the function handed that very object out
Modify ==
    /\ last.op \in {"s3_get_engines", "s3_get_params"}
    /\ last.raised = NONE
    /\ \E v \in IF last.result.t = "list" THEN ListChanges(last.result.v)
                ELSE DictChanges(last.result.v) :
          /\ last' = [last EXCEPT !.op = "modify", !.result.v = v]
          /\ S3_ENGINES' = IF last.result.ref = "_S3_ENGINES" THEN v ELSE S3_ENGINES
          /\ S3_ACCESS_DATA' = IF last.result.ref \in DOMAIN S3_ACCESS_DATA
                               THEN [S3_ACCESS_DATA EXCEPT ![last.result.ref] = v]
                               ELSE S3_ACCESS_DATA
    /\ UNCHANGED <<store, errors, written, threads>>

AssertAccess ==
    /\ last.op = "idle"
    /\ \E errs \in ErrorLists, engine \in EngineArgs :
        \E F \in Plans(s3_assert_access(errs, engine, Cx(NoFileL), NoFault)) :
            Done("s3_assert_access", [NoArgs EXCEPT !.plan = F, !.engine = engine], errs,
                 s3_assert_access(errs, engine, Cx(NoFileL), F))

ItemExists ==
    /\ last.op = "idle"
    /\ \E errs \in ErrorLists, engine \in EngineArgs, bucket \in BucketArgs :
        \E client \in Pick(engine, bucket, ClientArgs) :
        \E k \in Pick(engine, bucket, KeyArgs \cup {<<docs, NoneS>>}) :
        \E F \in Pick(engine, bucket, Plans(s3_item_exists(errs, k[1], k[2], bucket, engine, client,
                                                   Cx(NoFileL), NoFault))) :
            Done("s3_item_exists",
                 [NoArgs EXCEPT !.plan = F, !.engine = engine, !.bucket = bucket, !.client = client,
                                !.prefix = k[1], !.identifier = k[2]],
                 errs,
                 s3_item_exists(errs, k[1], k[2], bucket, engine, client, Cx(NoFileL), F))

\* the three functions whose signature allows errors = None, called with it
GetClientNoList ==
    /\ last.op = "idle"
    /\ \E engine \in EngineArgs :
        \E F \in Plans(s3_get_client(NoList, engine, Cx(NoFileL), NoFault)) :
            Done("s3_get_client", [NoArgs EXCEPT !.plan = F, !.engine = engine], NoList,
                 s3_get_client(NoList, engine, Cx(NoFileL), F))

StartupNoList ==
    /\ last.op = "idle"
    /\ \E engine \in EngineArgs, bucket \in BucketArgs :
        \E F \in Plans(s3_startup(NoList, engine, bucket, Cx(NoFileL), NoFault)) :
            Done("s3_startup", [NoArgs EXCEPT !.plan = F, !.engine = engine, !.bucket = bucket],
                 NoList, s3_startup(NoList, engine, bucket, Cx(NoFileL), F))

AssertAccessNoList ==
    /\ last.op = "idle"
    /\ \E engine \in EngineArgs :
        \E F \in Plans(s3_assert_access(NoList, engine, Cx(NoFileL), NoFault)) :
            Done("s3_assert_access", [NoArgs EXCEPT !.plan = F, !.engine = engine], NoList,
                 s3_assert_access(NoList, engine, Cx(NoFileL), F))

\* the calls made with errors = None, on every configuration
NextNoList ==
    \/ Forget
    \/ Setup
    \/ GetClientNoList
    \/ StartupNoList
    \/ AssertAccessNoList

SpecNoList == Init /\ [][NextNoList]_vars

ObjectRetrieve ==
    /\ last.op = "idle"
    /\ \E errs \in ErrorLists, engine \in EngineArgs, bucket \in BucketArgs :
        \E client \in Pick(engine, bucket, ClientArgs) :
        \E k \in Pick(engine, bucket, KeyArgs) :
        \E F \in Pick(engine, bucket, Plans(s3_object_retrieve(errs, k[1], k[2], bucket, engine,
                                                       client, Cx(NoFileL), NoFault))) :
            Done("s3_object_retrieve",
                 [NoArgs EXCEPT !.plan = F, !.engine = engine, !.bucket = bucket, !.client = client,
                                !.prefix = k[1], !.identifier = k[2]],
                 errs,
                 s3_object_retrieve(errs, k[1], k[2], bucket, engine, client, Cx(NoFileL), F))

ObjectStore ==
    /\ last.op = "idle"
    /\ \E errs \in ErrorLists, engine \in EngineArgs, bucket \in BucketArgs :
        \E client \in Pick(engine, bucket, ClientArgs) :
        \* obj: one that pickles, and one that does not (a lambda, an open file)
        \E k \in Pick(engine, bucket, KeyArgs),
           obj \in { [pickles |-> TRUE, v |-> 7], [pickles |-> FALSE, v |-> 0] } :
        \E F \in Pick(engine, bucket, Plans(s3_object_store(errs, k[1], k[2], obj, NONE, bucket,
                                                    engine, client, Cx(NoFileL), NoFault))) :
            Done("s3_object_store",
                 [NoArgs EXCEPT !.plan = F, !.engine = engine, !.bucket = bucket, !.client = client,
                                !.prefix = k[1], !.identifier = k[2], !.obj = obj],
                 errs,
                 s3_object_store(errs, k[1], k[2], obj, NONE, bucket, engine, client,
                                 Cx(NoFileL), F))

\* the calls that store and retrieve data and objects, on the configurations
\* the environment gives
NextObject ==
    \/ Forget
    \/ DataStore
    \/ DataRetrieve
    \/ ObjectStore
    \/ ObjectRetrieve

SpecObject == Init /\ [][NextObject]_vars

\* the environments s3_common can be loaded in: those of Environments and
\* the single-engine variable alone, an engine listed twice, a list of one,
\* and a single engine that is not a supported one
LoadEnvironments ==
    Environments \cup
    { [S3_ENGINE |-> "minio", S3_ENGINES |-> <<>>],
      [S3_ENGINE |-> NONE,    S3_ENGINES |-> <<"aws">>],
      [S3_ENGINE |-> NONE,    S3_ENGINES |-> <<"aws", ",", "aws">>],
      [S3_ENGINE |-> NONE,    S3_ENGINES |-> <<"aws", ",", "minio">>],
      [S3_ENGINE |-> "gcs",   S3_ENGINES |-> <<"aws", ",", "minio">>] }

\* the module is loaded, and the environment it was loaded in is on record
InitEnv ==
    /\ store = [b \in {"bk1"} |-> EmptyDict]
    /\ errors = <<>>
    /\ written = [bk \in {} |-> NONE]
    /\ threads = [t \in SetupThreads \cup CallThreads |-> Idle]
    /\ \E env \in LoadEnvironments :
          /\ S3_ENGINES = env_engines(env)
          /\ S3_ACCESS_DATA = env_access_data(env_engines(env),
                                              Truthy(env.S3_ENGINE), EmptyDict)
          /\ last = [NoCall("load") EXCEPT !.args.env = env]

\* the configuration, as the environment and s3_setup make it and as the
\* getters show it
NextEnv ==
    \/ Forget
    \/ Setup
    \/ GetEngines
    \/ GetParam
    \/ GetParams
    \/ Modify

SpecEnv == InitEnv /\ [][NextEnv]_vars

\* the steps with a seeded fault: the engine is appended to the list before
\* its access data are written
setup_step_list_first(pc, a) ==
    CASE pc = "access_data" ->
           [data |-> S3_ACCESS_DATA,
            engines |-> IF a.engine \notin Members(S3_ENGINES)
                        THEN Append(S3_ENGINES, a.engine) ELSE S3_ENGINES,
            pc |-> "not_in"]
      [] pc = "not_in" ->
           [data |-> S3_ACCESS_DATA, engines |-> S3_ENGINES, pc |-> "append"]
      [] OTHER ->
           [data |-> s3_setup(a.engine, a.endpoint_url, a.bucket_name, a.access_key,
                              a.secret_key, a.region_name, a.secure_access).data,
            engines |-> S3_ENGINES, pc |-> "return"]

\* one step of s3_setup past its test of the arguments, each read or write of
\* the configuration being one step (s3_pomes.py:41-50):
\*   _S3_ACCESS_DATA[engine] = {...}
\*   if engine not in _S3_ENGINES:
\*       _S3_ENGINES.append(engine)
\* [data, engines, pc]: the configuration after the step, and the next step
setup_step(pc, a) ==
    CASE pc = "access_data" ->
           [data |-> s3_setup(a.engine, a.endpoint_url, a.bucket_name, a.access_key,
                              a.secret_key, a.region_name, a.secure_access).data,
            engines |-> S3_ENGINES, pc |-> "not_in"]
      [] pc = "not_in" ->
           [data |-> S3_ACCESS_DATA, engines |-> S3_ENGINES,
            pc |-> IF a.engine \notin Members(S3_ENGINES) THEN "append" ELSE "return"]
      [] OTHER ->
           [data |-> S3_ACCESS_DATA, engines |-> Append(S3_ENGINES, a.engine),
            pc |-> "return"]

\* a thread calls s3_setup: the test of the arguments reads no shared state
SetupCall ==
    \E t \in SetupThreads, a \in SetupArgs :
        /\ threads[t].pc = "idle"
        /\ threads' = [threads EXCEPT ![t] =
              [Idle EXCEPT !.setup = a,
                           !.pc = IF s3_setup(a.engine, a.endpoint_url, a.bucket_name,
                                              a.access_key, a.secret_key, a.region_name,
                                              a.secure_access).result
                                  THEN "access_data" ELSE "return"]]
        /\ UNCHANGED <<S3_ENGINES, S3_ACCESS_DATA, store, errors, last, written>>

SetupStep ==
    \E t \in SetupThreads :
        /\ threads[t].pc \in {"access_data", "not_in", "append"}
        /\ LET r == setup_step(threads[t].pc, threads[t].setup)
           IN  /\ S3_ACCESS_DATA' = r.data
               /\ S3_ENGINES' = r.engines
               /\ threads' = [threads EXCEPT ![t].pc = r.pc]
        /\ UNCHANGED <<store, errors, last, written>>

\* a thread calls a facade operation without a bucket, which begins with
\*   curr_engine = _assert_engine(op_errors, engine)
ResolveEngine ==
    \E t \in CallThreads, engine \in EngineArgs :
        /\ threads[t].pc = "idle"
        /\ threads' = [threads EXCEPT ![t] =
              [Idle EXCEPT !.engine = engine,
                           !.resolved = _assert_engine(<<>>, engine).result,
                           !.pc = "get_param"]]
        /\ UNCHANGED <<S3_ENGINES, S3_ACCESS_DATA, store, errors, last, written>>

\* and goes on with
\*   bucket = bucket or _get_param(curr_engine, "bucket-name")
GetBucketName ==
    \E t \in CallThreads :
        /\ threads[t].pc = "get_param"
        /\ threads' = [threads EXCEPT ![t].raised =
                          _get_param(threads[t].resolved, "bucket-name").raised,
                                      ![t].pc = "return"]
        /\ UNCHANGED <<S3_ENGINES, S3_ACCESS_DATA, store, errors, last, written>>

\* s3_setup, or the facade operation, returns
ThreadReturn ==
    \E t \in SetupThreads \cup CallThreads :
        /\ threads[t].pc = "return"
        /\ threads' = [threads EXCEPT ![t] = Idle]
        /\ UNCHANGED <<S3_ENGINES, S3_ACCESS_DATA, store, errors, last, written>>

\* the module is loaded and no thread is in a call
InitThreads ==
    /\ store = [b \in {"bk1"} |-> EmptyDict]
    /\ errors = <<>>
    /\ written = [bk \in {} |-> NONE]
    /\ threads = [t \in SetupThreads \cup CallThreads |-> Idle]
    /\ last = NoCall("idle")
    /\ \E env \in LoadEnvironments :
          /\ S3_ENGINES = env_engines(env)
          /\ S3_ACCESS_DATA = env_access_data(env_engines(env),
                                              Truthy(env.S3_ENGINE), EmptyDict)

\* s3_setup running concurrently with itself and with a facade operation
NextThreads ==
    \/ SetupCall
    \/ SetupStep
    \/ ResolveEngine
    \/ GetBucketName
    \/ ThreadReturn

SpecThreads == InitThreads /\ [][NextThreads]_vars

Next ==
    \/ Forget
    \/ Setup
    \/ OtherClientPut
    \/ GetClient
    \/ Startup
    \/ DataRetrieve
    \/ DataStore
    \/ FileRetrieve
    \/ FileStore
    \/ ItemGetInfo
    \/ ItemGetTags
    \/ ItemRemove
    \/ ItemsList
    \/ ItemsRemove
    \/ GetEngines
    \/ GetParam
    \/ GetParams
    \/ Modify
    \/ AssertAccess
    \/ ItemExists

Spec == Init /\ [][Next]_vars

----------------------------------------------------------------------------
(* The properties.  They are stated on the record of the last call: last    *)
(* holds its arguments, the interactions it had with the service, its       *)
(* result and the caller's error list before and after it; store is the     *)
(* service as the call left it.                                             *)

\* the facade operations that resolve a bucket
BucketOps ==
    {"s3_startup", "s3_data_retrieve", "s3_data_store", "s3_file_retrieve",
     "s3_file_store", "s3_item_get_info", "s3_item_get_tags", "s3_item_remove",
     "s3_items_list", "s3_items_remove"}

\* the value a facade operation returns when no adapter runs
Sentinel(op) ==
    CASE op \in {"s3_startup", "s3_file_store"} -> RBool(FALSE)
      [] op \in {"s3_item_remove", "s3_items_remove"} -> RInt(0)
      [] OTHER -> RNone

\* the outcomes of the interactions of the last call
Outcomes == {last.vcalls[i].outcome : i \in 1..Len(last.vcalls)}

\* interaction i of the last call failed, and not with not-found
Failed(i) == last.vcalls[i].outcome \notin {"ok", "NoSuchKey"}

\* the error string of a failure of kind kind on engine 'aws'
AwsExceptMsg(kind) ==
    ExceptMsg("aws", DictGet(S3_ACCESS_DATA["aws"], "region-name"), Exc(kind))

\* the last call ran an AWS adapter operation that addresses a single object
SingleObject ==
    /\ last.adapter = "aws"
    /\ \/ last.op \in {"s3_data_retrieve", "s3_file_retrieve", "s3_item_get_info",
                      "s3_item_get_tags"}
       \/ last.op = "s3_item_remove" /\ TruthyS(last.args.identifier)

\* the last call ran an AWS adapter operation that makes a single vendor call
SingleCall ==
    \/ SingleObject
    \/ /\ last.adapter = "aws"
       /\ last.op \in {"s3_get_client", "s3_data_store", "s3_file_store", "s3_items_list"}

\* the last call ran the AWS bulk removal under a prefix
BulkRemoval ==
    /\ last.adapter = "aws"
    /\ \/ last.op = "s3_items_remove"
       \/ last.op = "s3_item_remove" /\ ~TruthyS(last.args.identifier)

\* the vendor answered the last interaction of the last call with not-found
NotFound ==
    /\ last.vcalls # <<>>
    /\ last.vcalls[Len(last.vcalls)].call \in KeyedCalls
    /\ last.vcalls[Len(last.vcalls)].outcome = "NoSuchKey"

\* the keys of bucket that lie under prefix
UnderPrefix(st, bucket, prefix) ==
    IF bucket \in DOMAIN st
    THEN {k \in DOMAIN st[bucket] : StartsWith(k, as_posix(Path(prefix)))}
    ELSE {}

\* the delete calls of the last call, in the order issued
Removes == SelectSeq(last.vcalls, LAMBDA v : v.call = "remove_object")

\* what the listing of a bulk removal returns, given the service as the call
\* found it: the first 'limit' keys under the prefix, folder markers left out
ListedKeys ==
    LET all == SortKeys(UnderPrefix(last.store_before, last.bucket, last.args.prefix))
        limit == IF last.op = "s3_items_remove" THEN last.args.max_count
                 ELSE ItemRemoveMax
        n == IF Len(all) < limit THEN Len(all) ELSE limit
    IN  SelectSeq(SubSeq(all, 1, n), LAMBDA k : ~EndsWithSlash(k))

\* the objects the last call took out of its bucket
RemovedKeys ==
    IF last.bucket \in DOMAIN last.store_before
    THEN (DOMAIN last.store_before[last.bucket]) \ (DOMAIN store[last.bucket])
    ELSE {}

\* C1: a facade operation called with an engine that is not configured and
\* with no bucket returns without raising, returns its failure sentinel, calls
\* no adapter, and leaves exactly one new error, naming the engine, in the
\* caller's list
C1_UnconfiguredEngine ==
    (/\ last.op \in BucketOps
     /\ Truthy(last.args.engine)
     /\ last.args.engine \notin Members(S3_ENGINES)
     /\ last.args.bucket = NONE)
    => /\ last.raised = NONE
       /\ last.result = Sentinel(last.op)
       /\ last.adapter = NONE
       /\ last.vcalls = <<>>
       /\ last.errors_after = Append(last.errors_before, AssertMsg(last.args.engine))

\* what C2 says of resolving engine e to result with the errors new_errors
ResolvedAsClaimed(e, result, new_errors) ==
    /\ e \in Members(S3_ENGINES) => result = e /\ new_errors = <<>>
    /\ (~Truthy(e) /\ S3_ENGINES # <<>>) =>
          result = S3_ENGINES[1] /\ new_errors = <<>>
    /\ (Truthy(e) /\ e \notin Members(S3_ENGINES)) =>
          result = NONE /\ new_errors = <<AssertMsg(e)>>

\* C2: resolving a configured engine returns it and appends no error;
\* resolving None or '' while an engine is configured returns the first
\* configured engine and appends no error; resolving a name that is not
\* configured returns None and appends exactly one error naming it.  This
\* holds of _assert_engine in every configuration reached, and of the engine
\* every facade call resolved.
C2_EngineResolution ==
    /\ \A e \in EngineArgs \cup {""} :
          LET r == _assert_engine(<<PriorMsg>>, e)
          IN  /\ Head(r.errors) = PriorMsg
              /\ ResolvedAsClaimed(e, r.result, Tail(r.errors))
    /\ last.op \in BucketOps \cup {"s3_get_client"} =>
          ResolvedAsClaimed(last.args.engine, last.curr_engine,
                            SelectSeq(last.op_errors,
                                      LAMBDA m : m.fmt = AssertMsg("").fmt))

\* a call that named no engine, with 'aws' configured first and 'minio'
\* second, resolved 'aws' and reported nothing
C2_Witness ==
    /\ last.op = "s3_items_list"
    /\ last.args.engine = NONE
    /\ S3_ENGINES = <<"aws", "minio">>
    /\ last.curr_engine = "aws"
    /\ last.op_errors = <<>>

\* C3: when the vendor reports that the object is not found, an adapter
\* operation that addresses a single object returns its empty result (None,
\* 0 for a delete) and leaves the error list it was given, and the caller's,
\* as they were
C3_NotFoundIsSilent ==
    (SingleObject /\ NotFound)
    => /\ last.raised = NONE
       /\ last.result = Sentinel(last.op)
       /\ last.op_errors = <<>>
       /\ last.errors_after = last.errors_before

\* s3_item_get_tags of an object that is not there, called with a list that
\* holds an error already
C3_Witness ==
    /\ SingleObject
    /\ NotFound
    /\ last.op = "s3_item_get_tags"
    /\ last.result = RNone
    /\ last.errors_after = <<PriorMsg>>

\* C4: a vendor failure other than not-found in an adapter operation that
\* makes a single vendor call appends exactly one error string, of the form
\* "Error accessing '<engine>' at '<endpoint>': <text>", to the list given to
\* the adapter, and the caller's list receives that string exactly once
C4_OneErrorPerFailure ==
    \A i \in 1..Len(last.vcalls) :
        (SingleCall /\ Failed(i))
        => /\ last.raised = NONE
           /\ last.op_errors = <<AwsExceptMsg(last.vcalls[i].outcome)>>
           /\ last.op_errors[1].fmt = "Error accessing '{engine}' at '{endpoint}': {text}"
           /\ last.op_errors[1].engine = "aws"
           /\ last.errors_after = last.errors_before \o last.op_errors

\* s3_items_list whose listing the service denied, called with a list that
\* holds an error already: the list holds two
C4_Witness ==
    /\ SingleCall
    /\ last.op = "s3_items_list"
    /\ last.vcalls # <<>>
    /\ last.vcalls[Len(last.vcalls)].call = "list_objects_v2"
    /\ last.vcalls[Len(last.vcalls)].outcome = "AccessDenied"
    /\ Len(last.errors_after) = 2

\* the vendor's put call of the last call completed
PutOk ==
    \E i \in 1..Len(last.vcalls) :
        last.vcalls[i].call = "put_object" /\ last.vcalls[i].outcome = "ok"

\* C5: data_store (s3_data_store on engine 'aws') returns True if and only
\* if the vendor put call completed; it returns False when the put call fails
\* and when no client could be obtained
C5_DataStoreResult ==
    (last.op = "s3_data_store" /\ last.adapter = "aws" /\ last.raised = NONE)
    => last.result = RBool(PutOk)

\* C6: when the listing or a deletion of a bulk removal fails, and not with
\* not-found, the call returns without raising and the error string of that
\* failure is in the caller's list
C6_BulkRemovalErrors ==
    \A i \in 1..Len(last.vcalls) :
        (/\ BulkRemoval
         /\ last.vcalls[i].call \in {"list_objects_v2", "remove_object"}
         /\ Failed(i))
        => /\ last.raised = NONE
           /\ AwsExceptMsg(last.vcalls[i].outcome) \in Members(last.errors_after)

\* C7: bulk removal under a prefix that holds N objects (folder markers not
\* counted), with max_count M < N and no vendor failure, removes exactly M
\* objects and returns M, folder markers under the prefix or not
C7_BulkRemovalCount ==
    LET N == Cardinality({k \in UnderPrefix(last.store_before, last.bucket,
                                            last.args.prefix) : ~EndsWithSlash(k)})
        M == last.args.max_count
    IN  (/\ last.op = "s3_items_remove"
         /\ last.adapter = "aws"
         /\ last.raised = NONE
         /\ Outcomes \subseteq {"ok"}
         /\ last.bucket \in DOMAIN last.store_before
         /\ M < N)
        => /\ last.result = RInt(M)
           /\ Cardinality(RemovedKeys) = M

\* C8: in a bulk removal the listing comes before any deletion; the objects
\* are deleted one at a time in the order of the listing; after the first
\* deletion that fails with a vendor error no delete call is issued; the value
\* returned is the number of deletions that succeeded, and the objects deleted
\* stay deleted
C8_BulkRemovalOrder ==
    BulkRemoval
    => /\ \A i, j \in 1..Len(last.vcalls) :
             (/\ last.vcalls[i].call = "list_objects_v2"
              /\ last.vcalls[j].call = "remove_object") => i < j
       /\ Removes # <<>> =>
             /\ Len(Removes) <= Len(ListedKeys)
             /\ \A i \in 1..Len(Removes) : Removes[i].key = ListedKeys[i]
       /\ \A i \in 1..Len(Removes) :
             Removes[i].outcome \notin {"ok", "NoSuchKey"} => i = Len(Removes)
       /\ last.raised = NONE =>
             last.result = RInt(Cardinality({i \in 1..Len(Removes) :
                                                Removes[i].outcome = "ok"}))
       /\ \A i \in 1..Len(Removes) :
             Removes[i].outcome = "ok" => Removes[i].key \notin DOMAIN store[last.bucket]

\* a bulk removal whose listing returned two objects, whose first deletion
\* succeeded and whose second was denied: 1 is returned, the first object is
\* gone and the second is still there
C8_Witness ==
    /\ BulkRemoval
    /\ Len(ListedKeys) = 2
    /\ Len(Removes) = 2
    /\ Removes[1].outcome = "ok"
    /\ Removes[2].outcome = "AccessDenied"
    /\ last.result = RInt(1)
    /\ RemovedKeys = {ListedKeys[1]}

StoredBytes(data) ==
    IF data.type = "bytes" THEN data.val
    ELSE IF data.val = <<233>> THEN <<195, 169>>
    ELSE data.val

\* C10: a retrieve of the whole object that follows a store by s3_data_store
\* at the same bucket and key, with no store or removal of that key between
\* the two, returns the bytes of the data stored, and the object has the
\* content type given to the store
C10_RoundTrip ==
    LET bk == <<last.bucket, obj_key_of(last.args.prefix, last.args.identifier)>>
    IN  (/\ last.op = "s3_data_retrieve"
         /\ last.adapter = "aws"
         /\ last.args.data_range = <<>>
         /\ Outcomes \subseteq {"ok"}
         /\ last.vcalls # <<>>
         /\ last.vcalls[Len(last.vcalls)].call = "get_object"
         /\ bk \in DOMAIN written)
        => /\ last.raised = NONE
           /\ last.result = RBytes(StoredBytes(written[bk].data))
           /\ store[bk[1]][bk[2]].ctype = written[bk].mimetype

\* U+00E9 stored as text at docs/a.txt, then retrieved: the two bytes C3 A9
C10_Witness ==
    /\ last.op = "s3_data_retrieve"
    /\ last.adapter = "aws"
    /\ last.args.data_range = <<>>
    /\ <<last.bucket, docs \o <<"/">> \o a_txt>> \in DOMAIN written
    /\ written[<<last.bucket, docs \o <<"/">> \o a_txt>>].data
          = [type |-> "str", val |-> <<233>>]
    /\ last.result = RBytes(<<195, 169>>)

\* the objects of bucket that lie under prefix, folder markers left out
ObjectsUnder(st, bucket, prefix) ==
    {k \in UnderPrefix(st, bucket, prefix) : ~EndsWithSlash(k)}

\* the last call is a listing by the AWS adapter that the vendor answered
Listed ==
    /\ last.op = "s3_items_list"
    /\ last.adapter = "aws"
    /\ last.raised = NONE
    /\ last.vcalls # <<>>
    /\ last.vcalls[Len(last.vcalls)].call = "list_objects_v2"
    /\ last.vcalls[Len(last.vcalls)].outcome = "ok"

\* C11: a listing of prefix P that finds under P the one object that
\* s3_data_store stored there with prefix P and identifier I returns exactly
\* one entry, whose key is P/I; no key ending in '/' is in a listing result
C11_StoreThenList ==
    Listed
    => /\ \A bk \in DOMAIN written :
             (/\ bk[1] = last.bucket
              /\ Path(written[bk].prefix) = Path(last.args.prefix)
              /\ ObjectsUnder(last.store_before, last.bucket, last.args.prefix) = {bk[2]})
             => last.result = RList(<<[Key |-> as_posix(Path(last.args.prefix)) \o <<"/">>
                                                  \o written[bk].identifier]>>)
       /\ last.result.t = "list" =>
             \A i \in 1..Len(last.result.v) : ~EndsWithSlash(last.result.v[i].Key)

\* the last call is s3_startup on the AWS adapter, and it returned
Started ==
    /\ last.op = "s3_startup"
    /\ last.adapter = "aws"
    /\ last.raised = NONE

\* the outcome of the last interaction of the last call ('none' without one)
LastOutcome ==
    IF last.vcalls = <<>> THEN "none" ELSE last.vcalls[Len(last.vcalls)].outcome

\* C12: startup returns True when the bucket exists and when the call
\* created it; it returns False, with an error appended, only when no client
\* could be obtained or the bucket could be neither verified nor created
C12_StartupResult ==
    Started
    => /\ (/\ last.vcalls # <<>>
           /\ last.vcalls[Len(last.vcalls)].call \in {"head_bucket", "create_bucket"}
           /\ LastOutcome = "ok") => last.result = RBool(TRUE)
       /\ last.result = RBool(FALSE) =>
             /\ LastOutcome # "ok"
             /\ Len(last.errors_after) = Len(last.errors_before) + 1

\* the service and the local file as the last call found them
CxBefore ==
    [store |-> last.store_before, vcalls |-> <<>>,
     file |-> IF last.op = "s3_file_store" THEN last.file ELSE NoFileL]

\* what the AWS adapter function of the last call does, handed an empty error
\* list, the bucket the facade resolved and the other arguments of the call
AwsAdapter ==
    LET a == last.args
        cx == CxBefore
    IN  CASE last.op = "s3_get_client" -> aws_get_client(<<>>, cx, a.plan)
          [] last.op = "s3_startup" -> aws_startup(<<>>, last.bucket, cx, a.plan)
          [] last.op = "s3_data_retrieve" ->
                aws_data_retrieve(<<>>, last.bucket, a.prefix, a.identifier, a.data_range,
                                  a.client, cx, a.plan)
          [] last.op = "s3_data_store" ->
                aws_data_store(<<>>, last.bucket, a.prefix, a.identifier, a.data,
                               a.mimetype, a.tags, a.client, cx, a.plan)
          [] last.op = "s3_file_retrieve" ->
                aws_file_retrieve(<<>>, a.prefix, a.identifier, last.bucket, a.client,
                                  cx, a.plan)
          [] last.op = "s3_file_store" ->
                aws_file_store(<<>>, last.bucket, a.prefix, a.identifier, a.mimetype,
                               a.tags, a.client, cx, a.plan)
          [] last.op = "s3_item_get_info" ->
                aws_item_get_info(<<>>, a.prefix, a.identifier, last.bucket, a.client,
                                  cx, a.plan)
          [] last.op = "s3_item_get_tags" ->
                aws_item_get_tags(<<>>, last.bucket, a.prefix, a.identifier, a.client,
                                  cx, a.plan)
          [] last.op = "s3_item_remove" ->
                aws_item_remove(<<>>, last.bucket, a.prefix, a.identifier, a.client,
                                cx, a.plan)
          [] last.op = "s3_items_list" ->
                aws_items_list(<<>>, last.bucket, a.prefix,
                               IF a.max_count \in {NoneI, 0} THEN DefaultMaxCount
                               ELSE a.max_count,
                               a.client, cx, a.plan)
          [] OTHER ->
                aws_items_remove(<<>>, last.bucket, a.prefix, a.max_count, a.client,
                                 cx, a.plan)

\* the vendors the interactions of the last call went to
VendorsCalled ==
    {IF last.vcalls[i].call = "minio" THEN "minio" ELSE "aws" : i \in 1..Len(last.vcalls)}

\* C13: a facade operation invokes the adapter of the engine resolved and no
\* other; when it returns it returns the result of that adapter and the
\* caller's list is what it held before, unaltered, followed by the errors
\* the adapter produced, in their order
C13_Delegation ==
    (last.op \in BucketOps \cup {"s3_get_client"})
    => /\ VendorsCalled \subseteq {last.curr_engine}
       /\ last.curr_engine \notin {"aws", "minio"} => last.vcalls = <<>>
       /\ (last.adapter = "aws" /\ last.raised = NONE) =>
             /\ last.vcalls = AwsAdapter.cx.vcalls
             /\ last.result = AwsAdapter.result
             /\ last.errors_after = last.errors_before \o AwsAdapter.errors
       /\ last.raised = NONE =>
             /\ Len(last.errors_after) >= Len(last.errors_before)
             /\ SubSeq(last.errors_after, 1, Len(last.errors_before)) = last.errors_before

\* s3_items_list with no engine named, 'aws' the default engine, whose
\* listing was denied: the result is the adapter's None and the caller's list
\* holds its earlier entry followed by the adapter's error
C13_Witness ==
    /\ last.op = "s3_items_list"
    /\ last.args.engine = NONE
    /\ last.adapter = "aws"
    /\ VendorsCalled = {"aws"}
    /\ last.result = RNone
    /\ last.errors_before = <<PriorMsg>>
    /\ last.errors_after = <<PriorMsg, AwsExceptMsg("AccessDenied")>>

\* C14: the adapter receives the bucket passed to the facade operation or,
\* when none is passed, the 'bucket-name' configured for the engine resolved;
\* the adapter addresses the vendor with that bucket
C14_DefaultBucket ==
    (last.op \in BucketOps /\ last.adapter # NONE)
    => /\ last.bucket = IF Truthy(last.args.bucket) THEN last.args.bucket
                        ELSE DictGet(S3_ACCESS_DATA[last.curr_engine], "bucket-name")
       /\ \A i \in 1..Len(last.vcalls) :
             last.vcalls[i].call # "boto3.client" => last.vcalls[i].bucket = last.bucket

\* 'minio' is the default engine, configured with bucket bk2; a retrieve that
\* names 'aws' and no bucket addresses bk1, the bucket configured for 'aws'
C14_Witness ==
    /\ last.op = "s3_data_retrieve"
    /\ last.args.engine = "aws"
    /\ last.args.bucket = NONE
    /\ S3_ENGINES = <<"minio", "aws">>
    /\ DictGet(S3_ACCESS_DATA["minio"], "bucket-name") = "bk2"
    /\ last.bucket = "bk1"
    /\ \E i \in 1..Len(last.vcalls) :
          last.vcalls[i].call = "get_object" /\ last.vcalls[i].bucket = "bk1"

\* C15: the configuration (the engines list and the access data) is changed
\* by s3_setup only: no step of any other operation, successful or failing,
\* and no use the caller makes of what an operation returned, changes it
C15_SetupOnly ==
    [][last'.op # "s3_setup" => UNCHANGED <<S3_ENGINES, S3_ACCESS_DATA>>]_vars

\* after s3_data_store has stored an object, the caller has changed a dict
\* that s3_get_params returned, and the configuration is still what the
\* environment gave: 'aws' alone, with its access data
C15_Witness ==
    /\ last.op = "modify"
    /\ last.result.t = "dict"
    /\ S3_ENGINES = <<"aws">>
    /\ S3_ACCESS_DATA = env_access_data(<<"aws">>, TRUE, EmptyDict)
    /\ last.result.v # S3_ACCESS_DATA["aws"]
    /\ DOMAIN written # {}

\* the arguments of s3_setup are acceptable
ValidSetup(a) ==
    /\ a.engine \in {"aws", "minio"}
    /\ Truthy(a.endpoint_url)
    /\ Truthy(a.bucket_name)
    /\ Truthy(a.access_key)
    /\ Truthy(a.secret_key)

\* the argument of s3_setup that key names
SetupArg(a, key) ==
    CASE key = "endpoint-url" -> a.endpoint_url
      [] key = "bucket-name" -> a.bucket_name
      [] key = "access-key" -> a.access_key
      [] key = "secret-key" -> a.secret_key
      [] key = "secure-access" -> a.secure_access
      [] OTHER -> a.region_name

\* C16: s3_setup returns True, and records the parameters given for the
\* engine, if and only if the engine is 'aws' or 'minio' and endpoint_url,
\* bucket_name, access_key and secret_key are non-empty; otherwise it returns
\* False and leaves the engines list and the access data as they were.  After
\* True, s3_get_param of each key of that engine returns the value passed,
\* and s3_setup changes the access data of no other engine.
C16_Setup ==
    /\ [](last.op = "s3_setup" =>
            LET a == last.args.setup
            IN  /\ last.result = RBool(ValidSetup(a))
                /\ ValidSetup(a) =>
                      /\ a.engine \in Members(S3_ENGINES)
                      /\ \A key \in {"endpoint-url", "bucket-name", "access-key",
                                     "secret-key", "secure-access", "region-name"} :
                            /\ s3_get_param(key, a.engine).raised = NONE
                            /\ s3_get_param(key, a.engine).value = SetupArg(a, key))
    /\ [][last'.op = "s3_setup" =>
            /\ ~ValidSetup(last'.args.setup) =>
                  UNCHANGED <<S3_ENGINES, S3_ACCESS_DATA>>
            /\ \A e \in (DOMAIN S3_ACCESS_DATA) \ {last'.args.setup.engine} :
                  /\ e \in DOMAIN S3_ACCESS_DATA'
                  /\ S3_ACCESS_DATA'[e] = S3_ACCESS_DATA[e]
            /\ \A i \in 1..Len(S3_ENGINES) :
                  i <= Len(S3_ENGINES') /\ S3_ENGINES'[i] = S3_ENGINES[i]
       ]_vars

\* s3_setup of 'minio' has returned True where 'aws' was configured by the
\* environment: both are configured and 'minio' has the bucket passed
C16_Witness ==
    /\ last.op = "s3_setup"
    /\ last.args.setup.engine = "minio"
    /\ last.result = RBool(TRUE)
    /\ S3_ENGINES = <<"aws", "minio">>
    /\ s3_get_param("bucket-name", "minio").value = "bk2"
    /\ s3_get_param("secure-access", "minio").value = "False"


\* C17: when the caller supplies a client to an operation, every vendor call
\* of the operation, the listing of a bulk removal included, goes through
\* that client and no client is created (stated for the AWS adapter)
C17_SuppliedClient ==
    (last.adapter = "aws" /\ last.args.client # NONE) =>
        \A i \in 1..Len(last.vcalls) :
            /\ last.vcalls[i].call # "boto3.client"
            /\ last.vcalls[i].client = last.args.client


\* the item the last call asked about is in the service: the object
\* prefix/identifier, or without an identifier some object under the prefix
ItemFound ==
    IF TruthyS(last.args.identifier)
    THEN /\ last.bucket \in DOMAIN store
         /\ obj_key_of(last.args.prefix, last.args.identifier) \in DOMAIN store[last.bucket]
    ELSE ObjectsUnder(store, last.bucket, last.args.prefix) # {}

\* C18: s3_item_exists returns True if the item was found, False if it was
\* not, and None only if an error occurred, the error then being in the
\* caller's list; False comes with no error (stated for the AWS adapter, on
\* calls whose vendor interactions all succeed or report not-found)
C18_ItemExists ==
    (last.op = "s3_item_exists" /\ last.adapter = "aws") =>
        /\ last.raised = NONE
        /\ IsNoneR(last.result) => Len(last.errors_after) > Len(last.errors_before)
        /\ Outcomes \subseteq {"ok", "NoSuchKey"} =>
              /\ last.result = RBool(ItemFound)
              /\ last.errors_after = last.errors_before

\* C19: listing a prefix under which no object exists returns an empty or
\* absent result and appends no error to the caller's list (stated for the
\* AWS adapter, on calls whose vendor interactions all succeed)
C19_EmptyListing ==
    (/\ last.op = "s3_items_list"
     /\ last.adapter = "aws"
     /\ Outcomes = {"ok"}
     /\ ObjectsUnder(last.store_before, last.bucket, last.args.prefix) = {})
    => /\ last.raised = NONE
       /\ last.result \in {RNone, RList(<<>>)}
       /\ last.errors_after = last.errors_before


\* C20: s3_get_engines and s3_get_params return copies: what they return has
\* the entries of the configuration, and a caller adding, removing or
\* changing entries in the list or dict it was returned changes neither the
\* engines list nor the access data, so that s3_get_engines, s3_get_params
\* and the resolution of an engine answer after the change as before it
C20_Copies ==
    /\ [](/\ last.op = "s3_get_engines" => last.result.v = S3_ENGINES
          /\ (last.op = "s3_get_params" /\ last.raised = NONE) =>
                last.result.v = S3_ACCESS_DATA[default_engine(last.args.engine)])
    /\ [][last'.op = "modify" =>
            /\ last'.result.v # last.result.v
            /\ UNCHANGED <<S3_ENGINES, S3_ACCESS_DATA>>
            /\ s3_get_engines' = s3_get_engines
            /\ \A e \in EngineArgs \cup {""} :
                  /\ s3_get_params(e)' = s3_get_params(e)
                  /\ _assert_engine(<<>>, e)' = _assert_engine(<<>>, e)
       ]_vars

\* the caller has appended an entry to the list s3_get_engines returned,
\* where 'aws' and 'minio' are configured: the list returned has three
\* entries and the engines list the two it had
C20_Witness ==
    /\ last.op = "modify"
    /\ last.result.t = "list"
    /\ S3_ENGINES = <<"aws", "minio">>
    /\ last.result.v = <<"aws", "minio", "gcs">>
    /\ s3_get_engines.result.v = <<"aws", "minio">>


\* the MaxKeys the facade s3_items_list is to pass for the last call
ListCount ==
    IF last.args.max_count = NoneI \/ last.args.max_count = 0 THEN DefaultMaxCount
    ELSE last.args.max_count

HadClient ==
    \/ last.args.client # NONE
    \/ /\ last.vcalls # <<>>
       /\ last.vcalls[1].call = "boto3.client"
       /\ last.vcalls[1].outcome = "ok"

\* the number of delete calls of the last call that succeeded
Deleted == Cardinality({i \in 1..Len(Removes) : Removes[i].outcome = "ok"})

\* C22: item_remove without an identifier removes the items in the folder
\* given by prefix, at most 10000 of them, and returns the number removed;
\* with an identifier it issues exactly one delete call, for the key
\* prefix/identifier, and returns 1 if that delete succeeded and 0 otherwise
\* (stated for calls that have a client)
C22_ItemRemove ==
    (last.op = "s3_item_remove" /\ last.adapter = "aws" /\ HadClient) =>
        IF TruthyS(last.args.identifier)
        THEN /\ last.raised = NONE
             /\ Len(Removes) = 1
             /\ Removes[1].bucket = last.bucket
             /\ Removes[1].key = obj_key_of(last.args.prefix, last.args.identifier)
             /\ last.result = RInt(Deleted)
        ELSE /\ Outcomes \subseteq {"ok"} =>
                   /\ last.raised = NONE
                   /\ {Removes[i].key : i \in 1..Len(Removes)} =
                         ObjectsUnder(last.store_before, last.bucket, last.args.prefix)
                   /\ ObjectsUnder(store, last.bucket, last.args.prefix) = {}
             /\ last.raised = NONE =>
                   /\ last.result = RInt(Deleted)
                   /\ Deleted <= ItemRemoveMax


\* the most delete calls the last bulk removal may issue
RemoveLimit ==
    IF last.op = "s3_items_remove" THEN last.args.max_count ELSE ItemRemoveMax

\* the listing calls of the last call
Listings == {i \in 1..Len(last.vcalls) : last.vcalls[i].call = "list_objects_v2"}

AwsFromEnv(tag) ==
    /\ "aws" \in DOMAIN S3_ACCESS_DATA
    /\ S3_ACCESS_DATA["aws"] = env_s3_data("aws", tag)

\* C24: for an 'aws' engine configured from the environment with region R,
\* s3_get_param and _get_params give R for 'region-name', and R is the
\* endpoint in the error strings _except_msg builds for 'aws'
C24_EnvRegion ==
    \A tag \in {"S3", "AWS"} :
        AwsFromEnv(tag) =>
            LET R == env_get_str(tag, "REGION_NAME")
            IN  /\ s3_get_param("region-name", "aws").value = R
                /\ _get_params("aws").value["region-name"] = R
                /\ _except_msg(<<>>, Exc("AccessDenied"), "aws").errors =
                      <<ExceptMsg("aws", R, Exc("AccessDenied"))>>
                /\ (/\ last.op = "s3_get_param"
                    /\ last.args.key = "region-name"
                    /\ last.args.engine = "aws") => last.result = RStr(R)


\* C26: s3_assert_access, s3_get_client and s3_startup called with
\* errors = None end without raising, whether the operation succeeds or
\* fails, and return their normal result: a bool, or a client or None
C26_NoErrorList ==
    (/\ last.op \in {"s3_assert_access", "s3_get_client", "s3_startup"}
     /\ last.errors_before = NoList)
    => /\ last.raised = NONE
       /\ last.op = "s3_get_client" => last.result.t \in {"client", "none"}
       /\ last.op # "s3_get_client" => last.result.t = "bool"


\* the object the last call addressed, as the call found it
Addressed ==
    last.store_before[last.bucket][obj_key_of(last.args.prefix, last.args.identifier)]

\* the last call is s3_object_retrieve by the AWS adapter and the bytes it
\* retrieved are no serialized object
NotDeserialized ==
    /\ last.op = "s3_object_retrieve"
    /\ last.adapter = "aws"
    /\ Outcomes = {"ok"}
    /\ last.vcalls[Len(last.vcalls)].call = "get_object"
    /\ Addressed.body # <<>>
    /\ pickle_loads(Addressed.body).raised # NONE

\* C25: s3_object_retrieve returns None and appends exactly one error to the
\* caller's list, without raising, when the bytes retrieved cannot be
\* deserialized; s3_object_store returns False with exactly one error
\* appended, and performs no store, when the object cannot be serialized
C25_ObjectErrors ==
    /\ NotDeserialized =>
          /\ last.raised = NONE
          /\ last.result = RNone
          /\ Len(last.errors_after) = Len(last.errors_before) + 1
    /\ (last.op = "s3_object_store" /\ pickle_dumps(last.args.obj).raised # NONE) =>
          /\ last.raised = NONE
          /\ last.result = RBool(FALSE)
          /\ Len(last.errors_after) = Len(last.errors_before) + 1
          /\ last.vcalls = <<>>
          /\ store = last.store_before


\* ",".join(l)
RECURSIVE JoinComma(_)
JoinComma(l) ==
    IF l = <<>> THEN <<>>
    ELSE IF Len(l) = 1 THEN <<l[1]>>
    ELSE <<l[1], ",">> \o JoinComma(Tail(l))

\* the access data of engine are the values of the variables tagged tag
ReadFrom(engine, tag) ==
    /\ engine \in DOMAIN S3_ACCESS_DATA
    /\ DictGet(S3_ACCESS_DATA[engine], "access-key") = env_get_str(tag, "ACCESS_KEY")
    /\ DictGet(S3_ACCESS_DATA[engine], "secret-key") = env_get_str(tag, "SECRET_KEY")
    /\ DictGet(S3_ACCESS_DATA[engine], "bucket-name") = env_get_str(tag, "BUCKET_NAME")
    /\ DictGet(S3_ACCESS_DATA[engine], "temp-folder") = env_get_str(tag, "TEMP_FOLDER")

\* C23: as s3_common is loaded, when the single-engine variable is set the
\* engines list is that one engine, with parameters read from the variables
\* tagged 'S3', whatever the multi-engine variable holds; when it is not set,
\* the engines are the comma-separated entries of the multi-engine variable,
\* in the order listed, each with parameters read from the variables of its
\* own tag, 'AWS' or 'MINIO'; when neither is set no engine is configured
C23_EnvLoading ==
    last.op = "load" =>
        LET env == last.args.env
        IN  IF Truthy(env.S3_ENGINE)
            THEN /\ S3_ENGINES = <<env.S3_ENGINE>>
                 /\ DOMAIN S3_ACCESS_DATA = {env.S3_ENGINE}
                 /\ ReadFrom(env.S3_ENGINE, "S3")
            ELSE IF env.S3_ENGINES # <<>>
            THEN /\ JoinComma(S3_ENGINES) = env.S3_ENGINES
                 /\ "," \notin Members(S3_ENGINES)
                 /\ DOMAIN S3_ACCESS_DATA = Members(S3_ENGINES)
                 /\ \A e \in Members(S3_ENGINES) :
                       ReadFrom(e, IF e = "aws" THEN "AWS" ELSE "MINIO")
            ELSE /\ S3_ENGINES = <<>>
                 /\ S3_ACCESS_DATA = EmptyDict

\* loaded with the single-engine variable 'aws' and the multi-engine variable
\* 'minio': 'aws' alone is configured, with the access key of the 'S3' tag
C23_Witness ==
    /\ last.op = "load"
    /\ last.args.env = [S3_ENGINE |-> "aws", S3_ENGINES |-> <<"minio">>]
    /\ S3_ENGINES = <<"aws">>
    /\ DOMAIN S3_ACCESS_DATA = {"aws"}
    /\ S3_ACCESS_DATA["aws"]["access-key"] = "env-access"

\* C27: in every reachable configuration the engines list has no duplicate
\* entry, every entry is 'aws' or 'minio', and the engines of the list are
\* the keys of the access data
C27_ConfigInvariant ==
    /\ \A i, j \in 1..Len(S3_ENGINES) : S3_ENGINES[i] = S3_ENGINES[j] => i = j
    /\ Members(S3_ENGINES) \subseteq {"aws", "minio"}
    /\ Members(S3_ENGINES) = DOMAIN S3_ACCESS_DATA

\* C29: once an engine is configured the first entry of the engines list,
\* and so the engine that None resolves to, never changes; an s3_setup that
\* re-configures an engine of the list replaces its parameters and leaves the
\* list as it is, one that adds an engine appends it
C29_DefaultStable ==
    [][S3_ENGINES # <<>> =>
          /\ S3_ENGINES' # <<>>
          /\ S3_ENGINES'[1] = S3_ENGINES[1]
          /\ _assert_engine(<<>>, NONE)'.result = _assert_engine(<<>>, NONE).result
          /\ (last'.op = "s3_setup" /\ last'.result = RBool(TRUE)) =>
                /\ S3_ENGINES' = IF last'.args.setup.engine \in Members(S3_ENGINES)
                                 THEN S3_ENGINES
                                 ELSE Append(S3_ENGINES, last'.args.setup.engine)
                /\ S3_ACCESS_DATA'[last'.args.setup.engine]["bucket-name"] =
                      last'.args.setup.bucket_name
    ]_vars

\* s3_setup has re-configured 'aws', the second engine of the list after
\* 'minio': the list is as it was and None still resolves to 'minio'
C29_Witness ==
    /\ last.op = "s3_setup"
    /\ last.result = RBool(TRUE)
    /\ last.args.setup.engine = "aws"
    /\ S3_ENGINES = <<"minio", "aws">>
    /\ S3_ACCESS_DATA["aws"]["endpoint-url"] = "url-a"
    /\ _assert_engine(<<>>, NONE).result = "minio"


\* C28: with s3_setup running concurrently with facade operations, each read
\* or write of the engines list and of the access data being one step, every
\* engine of the list has access data at every step, and no operation that
\* resolved an engine from the list finds no access data for it
C28_SetupConcurrent ==
    /\ Members(S3_ENGINES) \subseteq DOMAIN S3_ACCESS_DATA
    /\ \A t \in CallThreads :
          (threads[t].pc = "return" /\ threads[t].resolved # NONE) =>
              threads[t].raised = NONE

\* s3_setup of 'minio' is between its two writes, the access data written
\* and the list not yet appended to, and a facade operation that asked for
\* the default engine has resolved 'aws' and read its bucket name
C28_Witness ==
    /\ \E t \in SetupThreads :
          /\ threads[t].pc = "append"
          /\ threads[t].setup.engine = "minio"
    /\ "minio" \in DOMAIN S3_ACCESS_DATA
    /\ "minio" \notin Members(S3_ENGINES)
    /\ \E t \in CallThreads :
          /\ threads[t].pc = "return"
          /\ threads[t].engine = NONE
          /\ threads[t].resolved = "aws"
          /\ threads[t].raised = NONE

====
